---------------------------- MODULE Spec2Model ----------------------------
(***************************************************************************)
(* Verification model of the threshold-boot / consensus core of            *)
(* ubuntu-secure:                                                          *)
(*   - ThresholdBootSystem  (ubuntu-secure-master/secure_boot.py)          *)
(*   - SubstrateEmergencyRevocation                                        *)
(*                  (ubuntu-secure-master/substrate_emergency_revocation.py)*)
(*   - EmergencyRevocationSystem  (1/emergency_revocation.py)              *)
(*   - the /vote endpoint  (local-deploy/app.py)                           *)
(*   - the 5-node networks (network_orchestrator.py, phase3_multinode.py)  *)
(*   - ConsensusDaemon  (2/consensus_daemon.py)                            *)
(* Each program is a separate process image; the variable `system` records *)
(* which of them a behaviour is a run of.                                  *)
(***************************************************************************)
EXTENDS Integers, Sequences, FiniteSets, TLC

VARIABLES
    system,          \* which program this behaviour runs
    \* ---- ThresholdBootSystem ----
    threshold,       \* self.threshold
    total_shares,    \* self.total_shares
    master_key,      \* the bytes handed to split_key
    shares,          \* the list returned by split_key
    given,           \* the list handed to reconstruct_key
    result,          \* outcome of the last reconstruct_key call
    phase,           \* "new" | "split" | "reconstructed"
    \* ---- SubstrateEmergencyRevocation ----
    ser_friends,          \* self.friends: list of registered friends (device_id)
    revoked_devices,      \* self.revoked_devices
    pending_revocations,  \* self.pending_revocations: device -> request, votes
    ser_call,             \* the last public call, its arguments and return value
    \* ---- EmergencyRevocationSystem ----
    ers_threshold,        \* self.revocation_threshold
    thread_slots,         \* the threads this run may hold alive at one time
    switch_pc,            \* where the dead_mans_switch thread is, "off" if not started
    is_revoked,           \* self.is_revoked
    is_locked,            \* self.is_locked
    friends,              \* self.friends (the friend_ids registered)
    pending_votes,        \* self.pending_votes: friend_id -> vote
    revocation_log,       \* self.revocation_log (the "type" of every entry)
    false_alarm_count,    \* self.false_alarm_count
    heartbeat_overdue,    \* time.time() - self.last_heartbeat > self.heartbeat_timeout
    collectors,           \* the collect_votes threads started, in order
    \* ---- local-deploy/app.py ----
    votes,                \* votes: operation -> list of vote records
    devices,              \* devices (the names seen)
    operations_count,     \* operations_count
    response,             \* the JSON answer of the last POST /vote
    \* ---- phase3_multinode.UbuntuSecureNetwork ----
    transaction_count,    \* self.transaction_count
    transaction,          \* the transaction of the last submit_transaction
    node_votes,           \* its votes, in node order
    consensus,            \* its return value
    \* ---- network_orchestrator.UbuntuSecureNetwork ----
    tally_votes,          \* the votes handed to calculate_consensus
    tally_result,         \* the dict it returned
    \* ---- consensus_daemon.ConsensusDaemon ----
    overdue,              \* the devices with time.time() - last_seen > 300
    status,               \* Device.status of every device
    total_requests,       \* self.total_requests
    approved_requests,    \* self.approved_requests
    denied_requests,      \* self.denied_requests
    daemon_call,          \* the last request_consensus: arguments, votes, return
    clients,              \* the handle_client threads started by start(), in order
    daemon_answer,        \* the last handle_client: its fault and the answer it sent
    \* ---- network_orchestrator.UbuntuSecureNetwork ----
    active_transactions,  \* self.active_transactions: id -> transaction
    consensus_results,    \* self.consensus_results: id -> result
    node_reputations,     \* self.node_reputations: node -> score
    submission_count,     \* the calls of submit_transaction so far
    submitted,            \* the last submit_transaction: id, votes, return
    \* ---- BootstrapProtocol ----
    boot_threshold,       \* self.threshold.threshold
    collected_shares,     \* self.collected_shares
    replies,              \* what the device asked for collected_shares[i] did
    boot_call,            \* the last call: operation and return
    \* ---- mpc_compute.MPCCoordinator ----
    mpc_operation,        \* the operation of the last execute_distributed
    mpc_required,         \* its required_consensus
    mpc_results,          \* the results it received, in order
    mpc_outcome,          \* the dict verify_consensus returned
    mpc_calls,            \* the calls of execute_distributed so far
    \* ---- blockchain_bridge.BlockchainBridge ----
    bridge_stats,         \* self.stats
    bridge_call           \* the last handle_client: request, faults, answer

shamirVars == <<threshold, total_shares, master_key, shares, given, result, phase>>

serVars == <<ser_friends, revoked_devices, pending_revocations, ser_call>>

ersVars == <<ers_threshold, thread_slots, switch_pc, is_revoked, is_locked, friends, pending_votes,
             revocation_log, false_alarm_count, heartbeat_overdue, collectors>>

appVars == <<votes, devices, operations_count, response>>

netVars == <<transaction_count, transaction, node_votes, consensus,
             tally_votes, tally_result>>

daemonVars == <<overdue, status, total_requests, approved_requests,
                denied_requests, daemon_call, clients, daemon_answer>>

orchestratorVars == <<active_transactions, consensus_results,
                      node_reputations, submission_count, submitted>>

bootVars == <<boot_threshold, collected_shares, replies, boot_call>>

mpcVars == <<mpc_operation, mpc_required, mpc_results, mpc_outcome, mpc_calls>>

bridgeVars == <<bridge_stats, bridge_call>>

vars == <<system, shamirVars, serVars, ersVars, appVars, netVars, daemonVars,
          orchestratorVars, bootVars, mpcVars, bridgeVars>>

(***************************************************************************)
(* Generic helpers.                                                        *)
(***************************************************************************)
Range(s) == {s[i] : i \in DOMAIN s}

\* All lists without repetition of length n over S.
InjSeqs(S, n) == {s \in [1..n -> S] : \A i, j \in 1..n : i # j => s[i] # s[j]}

(***************************************************************************)
(* ThresholdBootSystem.                                                    *)
(* The field prime 2**521 - 1 and the 64-byte (512-bit) key are scaled to  *)
(* the Mersenne prime 2**3 - 1 and a 2-"byte" key of 1-bit bytes, keeping  *)
(* the relation  ByteBase^KeyBytes < prime  of the source (2^512 < 2^521-1)*)
(* and total_shares < prime.                                               *)
(***************************************************************************)
prime == 7
ByteBase == 2
KeyBytes == 2

\* Constructor defaults (threshold: int = 3, total_shares: int = 5).
DefaultThreshold == 3
DefaultTotalShares == 5

\* Bounds on the other (threshold, total_shares) pairs that are explored.
MaxThreshold == 2
MaxShares == 4

Configs ==
    {c \in (1..MaxThreshold) \X (1..MaxShares) : c[1] <= c[2]}
        \cup {<<DefaultThreshold, DefaultTotalShares>>}

Byte == 0..(ByteBase - 1)

\* bytes objects of length n
BytesOfLen(n) == [1..n -> Byte]

\* generate_master_key: secrets.token_bytes(64)
generate_master_key == BytesOfLen(KeyBytes)

\* Secrets a caller can hand to split_key: a generated master key, or a
\* shorter byte string (split_key accepts any bytes).
Secrets == generate_master_key \cup UNION {BytesOfLen(n) : n \in 1..(KeyBytes - 1)}

RECURSIVE Pow(_, _)
Pow(b, e) == IF e = 0 THEN 1 ELSE b * Pow(b, e - 1)

\* int.from_bytes(b, 'big')
RECURSIVE FromBytes(_)
FromBytes(b) ==
    IF Len(b) = 0 THEN 0
    ELSE FromBytes(SubSeq(b, 1, Len(b) - 1)) * ByteBase + b[Len(b)]

\* n.to_bytes(len, 'big') for 0 <= n < ByteBase^len
RECURSIVE ToBytes(_, _)
ToBytes(n, len) ==
    IF len = 0 THEN <<>>
    ELSE Append(ToBytes(n \div ByteBase, len - 1), n % ByteBase)

\* pow(b, e, m)
RECURSIVE ModPow(_, _, _)
ModPow(b, e, m) == IF e = 0 THEN 1 % m ELSE (b * ModPow(b, e - 1, m)) % m

\* sum(coeff * pow(x, i, prime) for i, coeff in enumerate(coefficients)),
\* coefficients indexed from 1 here, so term i has exponent i - 1.
RECURSIVE PolySum(_, _, _)
PolySum(coefficients, x, n) ==
    IF n = 0 THEN 0
    ELSE PolySum(coefficients, x, n - 1)
            + coefficients[n] * ModPow(x, n - 1, prime)

\* A mutant of PolyEval: every random coefficient multiplies x, whatever its
\* index (the exponent i is dropped).
RECURSIVE PolySumLinear(_, _, _)
PolySumLinear(coefficients, x, n) ==
    IF n = 0 THEN 0
    ELSE PolySumLinear(coefficients, x, n - 1)
            + coefficients[n] * (IF n = 1 THEN 1 ELSE x % prime)

PolyEvalLinear(coefficients, x) ==
    PolySumLinear(coefficients, x, Len(coefficients)) % prime

\* The y of one share: the polynomial evaluated at x.
PolyEval(coefficients, x) ==
    PolySum(coefficients, x, Len(coefficients)) % prime

\* split_key once the random coefficients are drawn: `random` is the list
\* [secrets.randbelow(prime) for _ in range(threshold - 1)].
SplitWith(key, random, n) ==
    LET coefficients == <<FromBytes(key)>> \o random
    IN  [x \in 1..n |-> <<x, PolyEval(coefficients, x)>>]

\* A mutant of LagrangeProd: the remainder keeps the sign of the product
\* (a truncating remainder) where Python's % takes the sign of the modulus.
RECURSIVE LagrangeProdTruncated(_, _, _, _)
LagrangeProdTruncated(used, i, j, num) ==
    IF j = 0 THEN 1
    ELSE LET rest == LagrangeProdTruncated(used, i, j - 1, num)
             product == IF num THEN rest * (0 - used[j][1])
                        ELSE rest * (used[i][1] - used[j][1])
         IN  IF j = i THEN rest
             ELSE IF product < 0 THEN 0 - ((0 - product) % prime)
                  ELSE product % prime

\* Product over j # i of f(j), reduced mod prime after every factor.
RECURSIVE LagrangeProd(_, _, _, _)
LagrangeProd(used, i, j, num) ==
    \* num = TRUE: numerator, factors -xj; FALSE: denominator, factors xi - xj
    IF j = 0 THEN 1
    ELSE LET rest == LagrangeProd(used, i, j - 1, num)
         IN  IF j = i THEN rest
             ELSE IF num THEN (rest * (0 - used[j][1])) % prime
                  ELSE (rest * (used[i][1] - used[j][1])) % prime

\* inv_denominator = pow(denominator, self.prime - 2, self.prime)
InvDenominator(used, i) ==
    ModPow(LagrangeProd(used, i, Len(used), FALSE), prime - 2, prime)

\* lagrange = (numerator * inv_denominator) % self.prime
LagrangeCoefficient(used, i) ==
    (LagrangeProd(used, i, Len(used), TRUE) * InvDenominator(used, i)) % prime

\* A mutant of LagrangeTerm: the denominator is used where its modular
\* inverse belongs.
LagrangeTermNoInverse(used, i) ==
    LET numerator == LagrangeProd(used, i, Len(used), TRUE)
        denominator == LagrangeProd(used, i, Len(used), FALSE)
        lagrange == (numerator * denominator) % prime
    IN  used[i][2] * lagrange

\* The term yi * lagrange of share i.
LagrangeTerm(used, i) == used[i][2] * LagrangeCoefficient(used, i)

RECURSIVE Interpolate(_, _)
Interpolate(used, i) ==
    IF i = 0 THEN 0
    ELSE (Interpolate(used, i - 1) + LagrangeTerm(used, i)) % prime

ValueError == [err |-> "ValueError", key |-> <<>>]
OverflowError == [err |-> "OverflowError", key |-> <<>>]
Returned(bytes) == [err |-> "none", key |-> bytes]

\* A mutant of reconstruct_key: the length check is off by one.
reconstruct_keyOffByOne(k, list) ==
    IF Len(list) < k - 1 THEN ValueError
    ELSE LET used == SubSeq(list, 1, IF Len(list) < k THEN Len(list) ELSE k)
             secret == Interpolate(used, Len(used))
         IN  IF secret >= Pow(ByteBase, KeyBytes) THEN OverflowError
             ELSE Returned(ToBytes(secret, KeyBytes))

\* reconstruct_key(shares) of a system with threshold k.
reconstruct_key(k, list) ==
    IF Len(list) < k THEN ValueError
    ELSE LET used == SubSeq(list, 1, k)
             secret == Interpolate(used, Len(used))
         IN  IF secret >= Pow(ByteBase, KeyBytes) THEN OverflowError
             ELSE Returned(ToBytes(secret, KeyBytes))

NoResult == [err |-> "unset", key |-> <<>>]

ShamirStart ==
    /\ system = "threshold_boot"
    /\ \E c \in Configs : threshold = c[1] /\ total_shares = c[2]
    /\ master_key \in Secrets
    /\ shares = <<>>
    /\ given = <<>>
    /\ result = NoResult
    /\ phase = "new"

otherThanShamir ==
    <<serVars, ersVars, appVars, netVars, daemonVars, orchestratorVars, bootVars, mpcVars, bridgeVars>>

\* shares = split_key(master_key)
SplitKey ==
    /\ system = "threshold_boot"
    /\ phase = "new"
    /\ \E random \in [1..(threshold - 1) -> 0..(prime - 1)] :
          shares' = SplitWith(master_key, random, total_shares)
    /\ phase' = "split"
    /\ UNCHANGED <<system, threshold, total_shares, master_key, given, result>>
    /\ UNCHANGED otherThanShamir

\* The lists of issued shares a caller hands to reconstruct_key: any
\* selection without repetition, in any order, of up to threshold + 1 shares.
ShareLists ==
    UNION {InjSeqs(Range(shares), n) : n \in 0..(threshold + 1)}

\* result = reconstruct_key(given), or the exception it raised
ReconstructKey ==
    /\ system = "threshold_boot"
    /\ phase = "split"
    /\ \E list \in ShareLists :
          /\ given' = list
          /\ result' = reconstruct_key(threshold, list)
    /\ phase' = "reconstructed"
    /\ UNCHANGED <<system, threshold, total_shares, master_key, shares>>
    /\ UNCHANGED otherThanShamir

ShamirNext == SplitKey \/ ReconstructKey

\* The lists a caller can build from the issued shares when it may hand the
\* same share more than once.
RepeatedShareLists ==
    UNION {[1..n -> Range(shares)] : n \in 0..(threshold + 1)}

\* result = reconstruct_key(given), or the exception it raised, for a list
\* that may repeat a share.
ReconstructKeyFromAny ==
    /\ system = "threshold_boot"
    /\ phase = "split"
    /\ \E list \in RepeatedShareLists :
          /\ given' = list
          /\ result' = reconstruct_key(threshold, list)
    /\ phase' = "reconstructed"
    /\ UNCHANGED <<system, threshold, total_shares, master_key, shares>>
    /\ UNCHANGED otherThanShamir

ShamirAnyNext == SplitKey \/ ReconstructKeyFromAny

\* A ThresholdBootSystem that is constructed with its defaults and not used.
ShamirIdle ==
    /\ threshold = DefaultThreshold
    /\ total_shares = DefaultTotalShares
    /\ master_key = <<>>
    /\ shares = <<>>
    /\ given = <<>>
    /\ result = NoResult
    /\ phase = "new"

otherThanSer ==
    <<shamirVars, ersVars, appVars, netVars, daemonVars, orchestratorVars, bootVars, mpcVars, bridgeVars>>

(***************************************************************************)
(* SubstrateEmergencyRevocation.                                           *)
(* A FriendDevice is represented by its device_id (its name, key, trust    *)
(* level and location are never read by the revocation logic; the weight   *)
(* stored in a vote record is never read either).                          *)
(***************************************************************************)
revocation_threshold == 2

\* People who may be registered as friends, request or vote.
People == {"alice_phone", "bob_laptop", "charlie_tablet"}

\* Devices a revocation request can name.
Targets == {"evil_laptop", "work_laptop"}

VoteWords == {"approve", "reject"}

\* Bounds: registered friends, vote records held at one time.
MaxFriends == 2
MaxVotes == 2

\* dict helpers
DictSet(d, k, v) == [x \in DOMAIN d \cup {k} |-> IF x = k THEN v ELSE d[x]]
DictDel(d, k) == [x \in DOMAIN d \ {k} |-> d[x]]

\* sum(1 for v in votes if v["vote"] == word)
RECURSIVE CountVotes(_, _)
CountVotes(given_votes, word) ==
    IF given_votes = <<>> THEN 0
    ELSE CountVotes(Tail(given_votes), word)
            + (IF Head(given_votes).vote = word THEN 1 ELSE 0)

IsFriend(registered, id) == \E i \in DOMAIN registered : registered[i] = id

\* _check_revocation_consensus, with _execute_revocation when the threshold is
\* reached: the device joins revoked_devices and its pending round is
\* deleted.  Result: the new pending_revocations, revoked_devices and the
\* value returned.
CheckRevocationConsensus(pending, revoked, target) ==
    IF target \notin DOMAIN pending
    THEN [pending |-> pending, revoked |-> revoked, ret |-> FALSE]
    ELSE IF CountVotes(pending[target].votes, "approve") >= revocation_threshold
         THEN [pending |-> DictDel(pending, target),
               revoked |-> revoked \cup {target}, ret |-> TRUE]
         ELSE [pending |-> pending, revoked |-> revoked, ret |-> FALSE]

\* A mutant of VoteOnRevocation: a friend's "reject" for a device that has no
\* open round lifts its revocation.
VoteOnRevocationLifts(pending, revoked, registered, target, voter, vote) ==
    IF target \notin DOMAIN pending
    THEN [pending |-> pending,
          revoked |-> IF IsFriend(registered, voter) /\ vote = "reject"
                      THEN revoked \ {target} ELSE revoked,
          ret |-> FALSE]
    ELSE IF ~IsFriend(registered, voter)
    THEN [pending |-> pending, revoked |-> revoked, ret |-> FALSE]
    ELSE LET recorded ==
                 [pending EXCEPT ![target].votes =
                     Append(@, [voter |-> voter, vote |-> vote])]
         IN  CheckRevocationConsensus(recorded, revoked, target)

\* vote_on_revocation(target_device, voter_id, vote)
VoteOnRevocation(pending, revoked, registered, target, voter, vote) ==
    IF target \notin DOMAIN pending
    THEN [pending |-> pending, revoked |-> revoked, ret |-> FALSE]
    ELSE IF ~IsFriend(registered, voter)
    THEN [pending |-> pending, revoked |-> revoked, ret |-> FALSE]
    ELSE LET recorded ==
                 [pending EXCEPT ![target].votes =
                     Append(@, [voter |-> voter, vote |-> vote])]
         IN  CheckRevocationConsensus(recorded, revoked, target)

\* Votes recorded in all the open rounds together.
RECURSIVE RecordedVotes(_)
RecordedVotes(pending) ==
    IF DOMAIN pending = {} THEN 0
    ELSE LET d == CHOOSE x \in DOMAIN pending : TRUE
         IN  Len(pending[d].votes) + RecordedVotes(DictDel(pending, d))

\* Room left for one more vote record.
VoteRoom(pending) == RecordedVotes(pending) < MaxVotes

NoCall ==
    [op |-> "init", target |-> "", who |-> "", vote |-> "", ret |-> "",
     notified |-> FALSE]

SerIdle ==
    /\ ser_friends = <<>>
    /\ revoked_devices = {}
    /\ pending_revocations = <<>>
    /\ ser_call = NoCall

\* SubstrateEmergencyRevocation(): no friends, no open round, and the
\* revocations _load_revoked_devices finds persisted by an earlier run.
SerStart ==
    /\ system = "substrate_revocation"
    /\ ser_friends = <<>>
    /\ revoked_devices \in SUBSET Targets
    /\ pending_revocations = <<>>
    /\ ser_call = NoCall

\* register_friend(friend); `attested` is the outcome of
\* zk_system.verify_with_consensus.
RegisterFriend ==
    /\ system = "substrate_revocation"
    /\ Len(ser_friends) < MaxFriends
    /\ \E f \in People, attested \in BOOLEAN :
          /\ ser_friends' = IF attested THEN Append(ser_friends, f)
                            ELSE ser_friends
          /\ ser_call' = [op |-> "register_friend", target |-> "", who |-> f,
                          vote |-> "", ret |-> IF attested THEN "True" ELSE "False",
                          notified |-> FALSE]
    /\ UNCHANGED <<system, revoked_devices, pending_revocations>>
    /\ UNCHANGED otherThanSer

\* request_revocation(request), the requester's automatic vote included.
RequestRevocation ==
    /\ system = "substrate_revocation"
    /\ \E target \in Targets, requester \in People :
          IF target \in revoked_devices
          THEN /\ ser_call' = [op |-> "request_revocation", target |-> target,
                               who |-> requester, vote |-> "",
                               ret |-> "already_revoked", notified |-> FALSE]
               /\ UNCHANGED <<revoked_devices, pending_revocations>>
          ELSE LET opened ==
                       IF target \notin DOMAIN pending_revocations
                       THEN DictSet(pending_revocations, target,
                                    [requester |-> requester, votes |-> <<>>])
                       ELSE pending_revocations
                   voted ==
                       IF IsFriend(ser_friends, requester)
                       THEN VoteOnRevocation(opened, revoked_devices,
                                ser_friends, target, requester, "approve")
                       ELSE [pending |-> opened, revoked |-> revoked_devices,
                             ret |-> FALSE]
               IN  /\ VoteRoom(opened)
                   /\ pending_revocations' = voted.pending
                   /\ revoked_devices' = voted.revoked
                   /\ ser_call' = [op |-> "request_revocation",
                                   target |-> target, who |-> requester,
                                   vote |-> IF IsFriend(ser_friends, requester)
                                            THEN "approve" ELSE "",
                                   ret |-> "pending_votes", notified |-> TRUE]
    /\ UNCHANGED <<system, ser_friends>>
    /\ UNCHANGED otherThanSer

\* vote_on_revocation(target_device, voter_id, vote) called by a friend's
\* device.
CastVote ==
    /\ system = "substrate_revocation"
    /\ \E target \in Targets, voter \in People, vote \in VoteWords :
          LET voted == VoteOnRevocation(pending_revocations, revoked_devices,
                           ser_friends, target, voter, vote)
          IN  /\ VoteRoom(pending_revocations)
              /\ pending_revocations' = voted.pending
              /\ revoked_devices' = voted.revoked
              /\ ser_call' = [op |-> "vote_on_revocation", target |-> target,
                              who |-> voter, vote |-> vote,
                              ret |-> IF voted.ret THEN "True" ELSE "False",
                              notified |-> FALSE]
    /\ UNCHANGED <<system, ser_friends>>
    /\ UNCHANGED otherThanSer

SerNext == RegisterFriend \/ RequestRevocation \/ CastVote

otherThanErs ==
    <<shamirVars, serVars, appVars, netVars, daemonVars, orchestratorVars, bootVars, mpcVars, bridgeVars>>

(***************************************************************************)
(* EmergencyRevocationSystem.                                              *)
(* A FriendDevice is represented by its friend_id; a revocation_log entry  *)
(* by its "type".  A RevocationRequest is represented by its threat_level  *)
(* and expires (its requester_id is read once, by broadcast_emergency).    *)
(* Time enters the code in two comparisons only, time.time() <             *)
(* request.expires and time.time() - last_heartbeat > heartbeat_timeout;   *)
(* the state holds their truth values: `expired` of a request turns TRUE   *)
(* when the clock reaches its expires, heartbeat_overdue when the timeout  *)
(* has run since the last heartbeat.                                       *)
(***************************************************************************)
ThreatLevels == {"low", "medium", "high", "critical", "stolen"}

\* Values of revocation_threshold the scenarios construct the system with.
\* revocation_threshold: int = 2
DefaultRevocationThreshold == 2

\* The thresholds the constructor is given in the scenarios.
CtorThresholds == {1, DefaultRevocationThreshold}

FriendIds == {"friend_alice", "friend_bob", "friend_charlie"}

\* requester_id of a request: a friend, or somebody who is not one.
Requesters == {"friend_alice", "user_phone"}

\* Votes a friend's device sends by itself.
ErsVoteWords == {"REVOKE", "REJECT"}

\* Bounds: collect_votes threads alive at one time (one more in the runs
\* of SpecConcurrent), entries of the log.
MaxThreads == 1
MaxLog == 3

\* A mutant of RequiredVotes: HIGH uses the constructor's threshold
\* ("Standard threshold").
RequiredVotesCtor(level, ctor) ==
    IF level = "critical" THEN 1
    ELSE IF level = "stolen" THEN 1
    ELSE IF level = "high" THEN ctor
    ELSE 3

\* initiate_revocation: required votes from the threat level.  `ctor` is
\* self.revocation_threshold, which the code does not read.
RequiredVotes(level, ctor) ==
    IF level = "critical" THEN 1
    ELSE IF level = "stolen" THEN 1
    ELSE IF level = "high" THEN 2
    ELSE 3

\* A mutant of ReceiveVote: the vote is accepted whoever sends it.
ReceiveVoteAnyone(known, given_votes, log, friend_id, vote) ==
    [votes |-> DictSet(given_votes, friend_id, vote),
     log |-> Append(log, "vote"), ret |-> TRUE]

\* receive_vote(friend_id, vote): the new pending_votes, revocation_log and
\* the value returned.
ReceiveVote(known, given_votes, log, friend_id, vote) ==
    IF friend_id \notin known
    THEN [votes |-> given_votes, log |-> log, ret |-> FALSE]
    ELSE [votes |-> DictSet(given_votes, friend_id, vote),
          log |-> Append(log, "vote"), ret |-> TRUE]

\* sum(1 for v in self.pending_votes.values() if v == word)
CountPending(given_votes, word) ==
    Cardinality({k \in DOMAIN given_votes : given_votes[k] = word})

\* json.dumps(self.revocation_log) raises TypeError when the log holds a
\* "revocation_request" entry: its "request" is a RevocationRequest object.
LogSerialisable(log) == \A i \in DOMAIN log : log[i] # "revocation_request"

ErsIdle ==
    /\ ers_threshold = 2
    /\ thread_slots = 0
    /\ switch_pc = "off"
    /\ is_revoked = FALSE
    /\ is_locked = FALSE
    /\ friends = {}
    /\ pending_votes = <<>>
    /\ revocation_log = <<>>
    /\ false_alarm_count = 0
    /\ heartbeat_overdue = FALSE
    /\ collectors = <<>>

\* EmergencyRevocationSystem(device_id, revocation_threshold)
ErsStart ==
    /\ system = "emergency_revocation"
    /\ ers_threshold \in CtorThresholds
    /\ thread_slots = MaxThreads
    /\ switch_pc = "off"
    /\ is_revoked = FALSE
    /\ is_locked = FALSE
    /\ friends = {}
    /\ pending_votes = <<>>
    /\ revocation_log = <<>>
    /\ false_alarm_count = 0
    /\ heartbeat_overdue = FALSE
    /\ collectors = <<>>

\* register_friend(friend)
ErsRegisterFriend ==
    /\ system = "emergency_revocation"
    /\ \E f \in FriendIds :
          /\ f \notin friends
          /\ friends' = friends \cup {f}
    /\ UNCHANGED <<system, ers_threshold, thread_slots, switch_pc,
                   is_revoked, is_locked, pending_votes,
                   revocation_log, false_alarm_count, heartbeat_overdue,
                   collectors>>
    /\ UNCHANGED otherThanErs

\* The collect_votes threads that have not returned yet.
Alive(threads) ==
    {i \in DOMAIN threads : threads[i].pc \in {"alice", "bob", "charlie", "tally"}}

\* broadcast_emergency: the requester, if a friend, is marked INITIATED.
MarkInitiated(known, given_votes, requester) ==
    IF requester \in known THEN DictSet(given_votes, requester, "INITIATED")
    ELSE given_votes

\* initiate_revocation(request), with broadcast_emergency: the request is
\* logged, the friends are notified and a collect_votes thread is started.
InitiateRevocation ==
    /\ system = "emergency_revocation"
    /\ Cardinality(Alive(collectors)) < thread_slots
    /\ Len(revocation_log) < MaxLog
    /\ \E level \in ThreatLevels, requester \in Requesters :
          /\ revocation_log' = Append(revocation_log, "revocation_request")
          /\ pending_votes' = MarkInitiated(friends, pending_votes, requester)
          /\ collectors' = Append(collectors,
                [threat_level |-> level, expired |-> FALSE,
                 required_votes |-> RequiredVotes(level, ers_threshold),
                 pc |-> "alice"])
    /\ UNCHANGED <<system, ers_threshold, thread_slots, switch_pc,
                   is_revoked, is_locked, friends,
                   false_alarm_count, heartbeat_overdue>>
    /\ UNCHANGED otherThanErs

\* The simulated responses of collect_votes, in order.
SimulatedVoter(pc) ==
    IF pc = "alice" THEN "friend_alice"
    ELSE IF pc = "bob" THEN "friend_bob" ELSE "friend_charlie"

SimulatedVote(pc) == IF pc = "charlie" THEN "INVESTIGATE" ELSE "REVOKE"

AfterVote(pc) ==
    IF pc = "alice" THEN "bob" ELSE IF pc = "bob" THEN "charlie" ELSE "tally"

\* collect_votes: one simulated response, self.receive_vote(friend, vote).
CollectVote ==
    /\ system = "emergency_revocation"
    /\ \E i \in DOMAIN collectors :
          LET pc == collectors[i].pc
              got == ReceiveVote(friends, pending_votes, revocation_log,
                                 SimulatedVoter(pc), SimulatedVote(pc))
          IN  /\ pc \in {"alice", "bob", "charlie"}
              /\ Len(got.log) <= MaxLog
              /\ pending_votes' = got.votes
              /\ revocation_log' = got.log
              /\ collectors' = [collectors EXCEPT ![i].pc = AfterVote(pc)]
    /\ UNCHANGED <<system, ers_threshold, thread_slots, switch_pc,
                   is_revoked, is_locked, friends,
                   false_alarm_count, heartbeat_overdue>>
    /\ UNCHANGED otherThanErs

\* The threads without the i-th, which has returned or died.
Without(threads, i) ==
    SubSeq(threads, 1, i - 1) \o SubSeq(threads, i + 1, Len(threads))

\* collect_votes: the tally and its outcome.  With enough REVOKE votes
\* execute_revocation runs: the flag is set, then create_revocation_certificate
\* serialises the log; if that raises, the thread dies before
\* permanent_lockdown.
TallyVotes ==
    /\ system = "emergency_revocation"
    /\ \E i \in DOMAIN collectors :
          LET c == collectors[i]
              revoke_votes == CountPending(pending_votes, "REVOKE")
          IN  /\ c.pc = "tally"
              /\ collectors' = Without(collectors, i)
              /\ IF revoke_votes >= c.required_votes
                 THEN /\ is_revoked' = TRUE
                      /\ is_locked' = (is_locked \/ LogSerialisable(revocation_log))
                      /\ UNCHANGED false_alarm_count
                 ELSE IF ~c.expired
                 THEN UNCHANGED <<is_revoked, is_locked, false_alarm_count>>
                 ELSE /\ false_alarm_count' = false_alarm_count + 1
                      /\ UNCHANGED <<is_revoked, is_locked>>
    /\ UNCHANGED <<system, ers_threshold, thread_slots, switch_pc,
                   friends, pending_votes,
                   revocation_log, heartbeat_overdue>>
    /\ UNCHANGED otherThanErs

\* receive_vote(friend_id, vote) called for a friend's device.
FriendVotes ==
    /\ system = "emergency_revocation"
    /\ \E f \in FriendIds, vote \in ErsVoteWords :
          LET got == ReceiveVote(friends, pending_votes, revocation_log, f, vote)
          IN  /\ Len(got.log) <= MaxLog
              /\ pending_votes' = got.votes
              /\ revocation_log' = got.log
    /\ UNCHANGED <<system, ers_threshold, thread_slots, switch_pc,
                   is_revoked, is_locked, friends,
                   false_alarm_count, heartbeat_overdue, collectors>>
    /\ UNCHANGED otherThanErs

\* update_heartbeat()
UpdateHeartbeat ==
    /\ system = "emergency_revocation"
    /\ heartbeat_overdue' = FALSE
    /\ UNCHANGED <<system, ers_threshold, thread_slots, switch_pc,
                   is_revoked, is_locked, friends,
                   pending_votes, revocation_log, false_alarm_count,
                   collectors>>
    /\ UNCHANGED otherThanErs

\* Time passes: the clock reaches the expires of a request in progress.
RequestExpires ==
    /\ system = "emergency_revocation"
    /\ \E i \in Alive(collectors) :
          /\ ~collectors[i].expired
          /\ collectors' = [collectors EXCEPT ![i].expired = TRUE]
    /\ UNCHANGED <<system, ers_threshold, thread_slots, switch_pc,
                   is_revoked, is_locked, friends,
                   pending_votes, revocation_log, false_alarm_count,
                   heartbeat_overdue>>
    /\ UNCHANGED otherThanErs

\* Time passes: heartbeat_timeout has run since the last heartbeat.
HeartbeatLapses ==
    /\ system = "emergency_revocation"
    /\ ~heartbeat_overdue
    /\ heartbeat_overdue' = TRUE
    /\ UNCHANGED <<system, ers_threshold, thread_slots, switch_pc,
                   is_revoked, is_locked, friends,
                   pending_votes, revocation_log, false_alarm_count,
                   collectors>>
    /\ UNCHANGED otherThanErs

\* dead_mans_switch: the loop test, `while not self.is_revoked`.
SwitchTests ==
    /\ system = "emergency_revocation"
    /\ switch_pc = "test"
    /\ switch_pc' = IF is_revoked THEN "returned" ELSE "sleeping"
    /\ UNCHANGED <<system, ers_threshold, thread_slots,
                   is_revoked, is_locked, friends, pending_votes,
                   revocation_log, false_alarm_count, heartbeat_overdue,
                   collectors>>
    /\ UNCHANGED otherThanErs

\* dead_mans_switch: time.sleep(3600) returns and the heartbeat is tested;
\* if it is overdue, initiate_revocation is called with a HIGH request of
\* requester SYSTEM and the loop is left.
SwitchWakes ==
    /\ system = "emergency_revocation"
    /\ switch_pc = "sleeping"
    /\ IF heartbeat_overdue
       THEN /\ Cardinality(Alive(collectors)) < thread_slots
            /\ Len(revocation_log) < MaxLog
            /\ switch_pc' = "initiated"
            /\ revocation_log' = Append(revocation_log, "revocation_request")
            /\ pending_votes' = MarkInitiated(friends, pending_votes, "SYSTEM")
            /\ collectors' = Append(collectors,
                  [threat_level |-> "high", expired |-> FALSE,
                   required_votes |-> RequiredVotes("high", ers_threshold),
                   pc |-> "alice"])
       ELSE /\ switch_pc' = "test"
            /\ UNCHANGED <<revocation_log, pending_votes, collectors>>
    /\ UNCHANGED <<system, ers_threshold, thread_slots,
                   is_revoked, is_locked, friends,
                   false_alarm_count, heartbeat_overdue>>
    /\ UNCHANGED otherThanErs

ErsNext ==
    \/ ErsRegisterFriend
    \/ InitiateRevocation
    \/ CollectVote
    \/ TallyVotes
    \/ FriendVotes
    \/ UpdateHeartbeat
    \/ RequestExpires
    \/ HeartbeatLapses

otherThanApp ==
    <<shamirVars, serVars, ersVars, netVars, daemonVars, orchestratorVars, bootVars, mpcVars, bridgeVars>>

(***************************************************************************)
(* local-deploy/app.py: POST /vote.                                        *)
(***************************************************************************)
AppOperations == {"boot", "unknown"}
AppDevices == {"phone", "unknown"}
AppVoteWords == {"approve", "deny", "unknown"}

\* "simple 2 vote threshold"
AppThreshold == 2

\* Bound: vote records held for all operations together.
MaxAppVotes == 3

RECURSIVE AppRecorded(_)
AppRecorded(d) ==
    IF DOMAIN d = {} THEN 0
    ELSE LET k == CHOOSE x \in DOMAIN d : TRUE
         IN  Len(d[k]) + AppRecorded(DictDel(d, k))

\* The answer of /vote once the vote is recorded: a result when at least
\* AppThreshold votes are held for the operation, a progress note before.
AppAnswer(list, op) ==
    IF Len(list) >= AppThreshold
    THEN LET approve_count == CountVotes(list, "approve")
         IN  [result |-> IF approve_count >= AppThreshold THEN "approved"
                         ELSE "denied",
              votes |-> Len(list), approve_count |-> approve_count,
              operation |-> op]
    ELSE [result |-> "", votes |-> Len(list), approve_count |-> 0,
          operation |-> op]

AppIdle ==
    /\ votes = <<>>
    /\ devices = {}
    /\ operations_count = 0
    /\ response = [result |-> "", votes |-> 0, approve_count |-> 0,
                   operation |-> ""]

\* POST /vote {operation, device, vote}
PostVote ==
    /\ system = "local_deploy"
    /\ AppRecorded(votes) < MaxAppVotes
    /\ \E op \in AppOperations, device \in AppDevices, word \in AppVoteWords :
          LET fresh == op \notin DOMAIN votes
              count == IF fresh THEN operations_count + 1 ELSE operations_count
              before == IF fresh THEN <<>> ELSE votes[op]
              list == Append(before, [device |-> device, vote |-> word,
                                      timestamp |-> count])
          IN  /\ devices' = devices \cup {device}
              /\ operations_count' = count
              /\ votes' = DictSet(votes, op, list)
              /\ response' = AppAnswer(list, op)
    /\ UNCHANGED system
    /\ UNCHANGED otherThanApp

AppNext == PostVote

otherThanNet ==
    <<shamirVars, serVars, ersVars, appVars, daemonVars, orchestratorVars, bootVars, mpcVars, bridgeVars>>

(***************************************************************************)
(* The 5-node networks.  A path is the list of its components:             *)
(* "/etc/passwd" is <<"etc", "passwd">>.                                   *)
(***************************************************************************)
Paths ==
    {<<"etc", "passwd">>, <<"home", "user", "notes.txt">>,
     <<"usr", "bin", "sudo">>, <<"tmp", "test.txt">>,
     <<"boot", "vmlinuz">>, <<"root", ".ssh", "authorized_keys">>,
     <<"var", "log", "syslog">>}

\* path.startswith("/" + dir + "/")
StartsWith(path, dir) == Len(path) >= 2 /\ path[1] = dir

Phase3Syscalls == {"write", "execve", "chmod", "read"}

Phase3Nodes == <<"Laptop", "Phone", "Pi", "Cloud", "Friend">>

\* Bound: transactions submitted.
MaxTransactions == 2

Phase3Critical(path) ==
    \E dir \in {"etc", "boot", "usr", "root", ".ssh"} : StartsWith(path, dir)

\* Node.vote(transaction); `lucky` is random.random() < 0.8 and `hour` is
\* int(time.time() / 3600) % 24.
NodeVote(name, syscall, path, lucky, hour) ==
    LET critical == Phase3Critical(path)
    IN  IF name = "Laptop" THEN (IF lucky THEN "APPROVE" ELSE "DENY")
        ELSE IF name = "Phone"
        THEN IF critical THEN "DENY"
             ELSE IF StartsWith(path, "home") THEN "APPROVE" ELSE "DENY"
        ELSE IF name = "Pi"
        THEN IF critical \/ syscall \in {"execve", "chmod"} THEN "DENY"
             ELSE IF StartsWith(path, "tmp") THEN "APPROVE" ELSE "DENY"
        ELSE IF name = "Cloud"
        THEN IF critical /\ syscall = "write" THEN "DENY"
             ELSE IF ~critical THEN "APPROVE" ELSE "DENY"
        ELSE IF name = "Friend"
        THEN IF 9 <= hour /\ hour <= 17
             THEN (IF ~critical THEN "APPROVE" ELSE "DENY")
             ELSE "DENY"
        ELSE "DENY"

\* votes.count(word)
RECURSIVE CountWord(_, _)
CountWord(list, word) ==
    IF list = <<>> THEN 0
    ELSE CountWord(Tail(list), word) + (IF Head(list) = word THEN 1 ELSE 0)

\* "Calculate consensus (3/5 required)"
Phase3Consensus(list) == CountWord(list, "APPROVE") >= 3

\* A mutant of calculate_consensus: approval by more votes for than against.
calculate_consensusMajority(list) ==
    LET approve_count == CountWord(list, "APPROVE")
        deny_count == CountWord(list, "DENY")
        abstain_count == CountWord(list, "ABSTAIN")
        consensus_reached == approve_count > deny_count
    IN  [approved |-> consensus_reached, votes_for |-> approve_count,
         votes_against |-> deny_count, votes_abstain |-> abstain_count,
         total_votes |-> Len(list), threshold |-> 3,
         consensus |-> IF consensus_reached THEN "APPROVED" ELSE "DENIED"]

\* network_orchestrator calculate_consensus(votes), over the vote of each
\* NodeVote.
calculate_consensus(list) ==
    LET approve_count == CountWord(list, "APPROVE")
        deny_count == CountWord(list, "DENY")
        abstain_count == CountWord(list, "ABSTAIN")
        consensus_reached == approve_count >= 3
    IN  [approved |-> consensus_reached, votes_for |-> approve_count,
         votes_against |-> deny_count, votes_abstain |-> abstain_count,
         total_votes |-> Len(list), threshold |-> 3,
         consensus |-> IF consensus_reached THEN "APPROVED" ELSE "DENIED"]

NoTally ==
    [approved |-> FALSE, votes_for |-> 0, votes_against |-> 0,
     votes_abstain |-> 0, total_votes |-> 0, threshold |-> 0,
     consensus |-> ""]

NetIdle ==
    /\ transaction_count = 0
    /\ transaction = [syscall |-> "", path |-> <<>>]
    /\ node_votes = <<>>
    /\ consensus = FALSE
    /\ tally_votes = <<>>
    /\ tally_result = NoTally

\* phase3_multinode submit_transaction(syscall, path)
Phase3SubmitTransaction ==
    /\ system = "phase3_network"
    /\ transaction_count < MaxTransactions
    /\ \E syscall \in Phase3Syscalls, path \in Paths, lucky \in BOOLEAN,
          hour \in 0..23 :
          LET cast == [n \in DOMAIN Phase3Nodes |->
                          NodeVote(Phase3Nodes[n], syscall, path, lucky, hour)]
          IN  /\ transaction_count' = transaction_count + 1
              /\ transaction' = [syscall |-> syscall, path |-> path]
              /\ node_votes' = cast
              /\ consensus' = Phase3Consensus(cast)
    /\ UNCHANGED <<system, tally_votes, tally_result>>
    /\ UNCHANGED otherThanNet

TallyWords == {"APPROVE", "DENY", "ABSTAIN"}

\* calculate_consensus applied to the five votes of a round.
CalculateConsensus ==
    /\ system = "network_orchestrator"
    /\ \E list \in [DOMAIN Phase3Nodes -> TallyWords] :
          /\ tally_votes' = list
          /\ tally_result' = calculate_consensus(list)
    /\ UNCHANGED <<system, transaction_count, transaction, node_votes,
                   consensus>>
    /\ UNCHANGED otherThanNet

NetNext == Phase3SubmitTransaction \/ CalculateConsensus

otherThanDaemon ==
    <<shamirVars, serVars, ersVars, appVars, netVars, orchestratorVars,
      bootVars, mpcVars, bridgeVars>>

(***************************************************************************)
(* ConsensusDaemon.                                                        *)
(* A trust level is held in hundredths (0.95 is 95).  A details string is  *)
(* the list of its words and separators: "rm -rf /etc" is                  *)
(* <<"rm", " ", "-rf", " ", "/", "etc">>, and `needle in details` is the   *)
(* search for a contiguous sub-list.  The clock enters through one         *)
(* comparison, time.time() - last_seen > 300; last_seen is written by the  *)
(* constructor only, so a device that is overdue stays overdue.            *)
(***************************************************************************)
\* _initialize_devices: the keys of self.devices, in insertion order.
DaemonDevices == <<"laptop", "phone", "yubikey", "cloud", "friend_device">>

DeviceType ==
    [laptop |-> "laptop", phone |-> "phone", yubikey |-> "yubikey",
     cloud |-> "cloud", friend_device |-> "laptop"]

DeviceTrust ==
    [laptop |-> 70, phone |-> 90, yubikey |-> 95, cloud |-> 60,
     friend_device |-> 50]

\* needle in text
IsIn(needle, text) ==
    \E i \in 0..(Len(text) - Len(needle)) :
        SubSeq(text, i + 1, i + Len(needle)) = needle

AnyIn(needles, text) == \E needle \in needles : IsIn(needle, text)

\* str.lower()
Lower(text) ==
    [i \in DOMAIN text |->
        CASE text[i] = "RM" -> "rm"
          [] text[i] = "-RF" -> "-rf"
          [] OTHER -> text[i]]

dangerous_commands ==
    {<<"rm", " ", "-rf">>, <<"dd", " ", "if=">>, <<"mkfs">>, <<"fdisk">>,
     <<"parted">>, <<"userdel">>, <<"passwd", " ", "root">>,
     <<"chmod", " ", "777">>, <<"chown", " ", "root">>}

\* Device._vote_sudo
VoteSudo(type, trust, details) ==
    IF AnyIn(dangerous_commands, Lower(details))
    THEN IF trust >= 80 /\ type \in {"yubikey", "phone"} THEN "APPROVE"
         ELSE "DENY"
    ELSE IF AnyIn({<<"apt", " ", "install">>, <<"apt", " ", "update">>,
                   <<"pip", " ", "install">>}, details)
    THEN (IF trust >= 50 THEN "APPROVE" ELSE "DENY")
    ELSE IF AnyIn({<<"systemctl">>, <<"service">>}, details)
    THEN (IF trust >= 60 THEN "APPROVE" ELSE "DENY")
    ELSE (IF trust >= 60 THEN "APPROVE" ELSE "DENY")

critical_paths ==
    {<<"/", "etc", "/", "passwd">>, <<"/", "etc", "/", "shadow">>,
     <<"/", "etc", "/", "sudoers">>, <<"/", "boot", "/">>}

\* Device._vote_file_write
VoteFileWrite(trust, path) ==
    IF AnyIn(critical_paths, path)
    THEN (IF trust >= 90 THEN "APPROVE" ELSE "DENY")
    ELSE IF AnyIn({<<"/", "etc", "/">>, <<"/", "usr", "/">>,
                   <<"/", "var", "/">>}, path)
    THEN (IF trust >= 60 THEN "APPROVE" ELSE "DENY")
    ELSE IF IsIn(<<"/", "home", "/">>, path) THEN "APPROVE"
    ELSE (IF trust >= 50 THEN "APPROVE" ELSE "DENY")

\* Device._vote_network
VoteNetwork(trust) == IF trust >= 50 THEN "APPROVE" ELSE "DENY"

\* A mutant of DeviceVote: the offline check is left out.
DeviceVoteNoOfflineCheck(type, trust, late, operation, details) ==
    IF trust < 30 THEN "ABSTAIN"
    ELSE IF operation = "sudo" THEN VoteSudo(type, trust, details)
    ELSE IF operation = "file_write" THEN VoteFileWrite(trust, details)
    ELSE IF operation = "network" THEN VoteNetwork(trust)
    ELSE IF trust < 70 THEN "DENY" ELSE "APPROVE"

\* Device.vote(operation, details); `late` is time.time() - last_seen > 300.
DeviceVote(type, trust, late, operation, details) ==
    IF late THEN "ABSTAIN"
    ELSE IF trust < 30 THEN "ABSTAIN"
    ELSE IF operation = "sudo" THEN VoteSudo(type, trust, details)
    ELSE IF operation = "file_write" THEN VoteFileWrite(trust, details)
    ELSE IF operation = "network" THEN VoteNetwork(trust)
    ELSE (IF trust < 70 THEN "DENY" ELSE "APPROVE")

\* sum(1 for v in votes.values() if v == word)
CountValues(cast, word) == Cardinality({k \in DOMAIN cast : cast[k] = word})

\* A mutant of consensus_reached: the threshold is a majority of all the
\* devices polled, abstentions included.
consensus_reachedOfAll(cast) ==
    CountValues(cast, "APPROVE") >= (Cardinality(DOMAIN cast) \div 2) + 1

\* A mutant of consensus_reached: half of the votes cast is enough.
consensus_reachedHalf(cast) ==
    LET approvals == CountValues(cast, "APPROVE")
        denials == CountValues(cast, "DENY")
    IN  approvals >= (approvals + denials) \div 2

\* A mutant of consensus_reached: the threshold has to be met exactly.
consensus_reachedExactly(cast) ==
    LET approvals == CountValues(cast, "APPROVE")
        denials == CountValues(cast, "DENY")
    IN  approvals = ((approvals + denials) \div 2) + 1

\* request_consensus: "need majority approval", abstentions not counted.
consensus_reached(cast) ==
    LET approvals == CountValues(cast, "APPROVE")
        denials == CountValues(cast, "DENY")
        total_votes == approvals + denials
        consensus_threshold == (total_votes \div 2) + 1
    IN  approvals >= consensus_threshold

DaemonOperations == {"sudo", "file_write", "network", "mount"}

DaemonDetails ==
    {<<"apt", " ", "install", " ", "firefox">>,
     <<"rm", " ", "-rf", " ", "/", "etc">>,
     <<"RM", " ", "-RF", " ", "/">>,
     <<"systemctl", " ", "restart", " ", "ssh">>,
     <<"ls">>,
     <<"/", "etc", "/", "passwd">>,
     <<"/", "etc", "/", "hosts">>,
     <<"/", "home", "/", "user", "/", "document.txt">>,
     <<"/", "tmp", "/", "x">>,
     <<>>}

\* Bound: requests handled by the daemon.
MaxRequests == 2

NoRequest == [operation |-> "", details |-> <<>>, votes |-> <<>>, ret |-> FALSE]

NoAnswered == [n |-> 0, fault |-> "", answer |-> ""]

DaemonIdle ==
    /\ overdue = {}
    /\ status = <<>>
    /\ total_requests = 0
    /\ approved_requests = 0
    /\ denied_requests = 0
    /\ daemon_call = NoRequest
    /\ clients = <<>>
    /\ daemon_answer = NoAnswered

\* ConsensusDaemon(): the five devices, seen at construction and online.
DaemonStart ==
    /\ system = "consensus_daemon"
    /\ overdue = {}
    /\ status = [d \in Range(DaemonDevices) |-> "online"]
    /\ total_requests = 0
    /\ approved_requests = 0
    /\ denied_requests = 0
    /\ daemon_call = NoRequest
    /\ clients = <<>>
    /\ daemon_answer = NoAnswered

\* request_consensus(operation, details)
RequestConsensus ==
    /\ system = "consensus_daemon"
    /\ total_requests < MaxRequests
    /\ \E operation \in DaemonOperations, details \in DaemonDetails :
          LET cast == [d \in Range(DaemonDevices) |->
                          DeviceVote(DeviceType[d], DeviceTrust[d],
                                     d \in overdue, operation, details)]
              reached == consensus_reached(cast)
          IN  /\ total_requests' = total_requests + 1
              /\ status' = [d \in Range(DaemonDevices) |->
                               IF d \in overdue THEN "offline" ELSE status[d]]
              /\ approved_requests' =
                    approved_requests + (IF reached THEN 1 ELSE 0)
              /\ denied_requests' =
                    denied_requests + (IF reached THEN 0 ELSE 1)
              /\ daemon_call' = [operation |-> operation, details |-> details,
                                 votes |-> cast, ret |-> reached]
    /\ UNCHANGED <<system, overdue, clients, daemon_answer>>
    /\ UNCHANGED otherThanDaemon

\* The clock passes last_seen + 300 of a device.
DeviceFallsSilent ==
    /\ system = "consensus_daemon"
    /\ \E d \in Range(DaemonDevices) \ overdue : overdue' = overdue \cup {d}
    /\ UNCHANGED <<system, status, total_requests, approved_requests,
                   denied_requests, daemon_call, clients,
                   daemon_answer>>
    /\ UNCHANGED otherThanDaemon

DaemonNext == RequestConsensus \/ DeviceFallsSilent

\* Bound: the client threads start() has running or finished.
MaxClients == 2

\* start(): a connection is accepted and a thread is started on
\* handle_client, which calls request_consensus.
AcceptClient ==
    /\ system = "consensus_daemon"
    /\ Len(clients) < MaxClients
    /\ clients' = Append(clients, [pc |-> "load_total", loaded |-> 0,
                                   reached |-> FALSE])
    /\ UNCHANGED <<system, overdue, status, total_requests,
                   approved_requests, denied_requests, daemon_call,
                   daemon_answer>>
    /\ UNCHANGED otherThanDaemon

\* request_consensus in a thread, `self.total_requests += 1`: the attribute
\* is loaded.  No lock is held; the threads are switched between the load
\* and the store.
LoadTotal ==
    /\ system = "consensus_daemon"
    /\ \E i \in DOMAIN clients :
          /\ clients[i].pc = "load_total"
          /\ clients' = [clients EXCEPT ![i].pc = "store_total",
                                        ![i].loaded = total_requests]
    /\ UNCHANGED <<system, overdue, status, total_requests,
                   approved_requests, denied_requests, daemon_call,
                   daemon_answer>>
    /\ UNCHANGED otherThanDaemon

\* `self.total_requests += 1`: the sum is stored.
StoreTotal ==
    /\ system = "consensus_daemon"
    /\ \E i \in DOMAIN clients :
          /\ clients[i].pc = "store_total"
          /\ total_requests' = clients[i].loaded + 1
          /\ clients' = [clients EXCEPT ![i].pc = "poll"]
    /\ UNCHANGED <<system, overdue, status, approved_requests,
                   denied_requests, daemon_call,
                   daemon_answer>>
    /\ UNCHANGED otherThanDaemon

\* request_consensus in a thread: the devices are polled and the votes are
\* counted.
PollDevices ==
    /\ system = "consensus_daemon"
    /\ \E i \in DOMAIN clients :
          /\ clients[i].pc = "poll"
          /\ \E operation \in DaemonOperations, details \in DaemonDetails :
                LET cast == [d \in Range(DaemonDevices) |->
                                DeviceVote(DeviceType[d], DeviceTrust[d],
                                           d \in overdue, operation, details)]
                IN  clients' = [clients EXCEPT
                                   ![i].pc = "load_counter",
                                   ![i].reached = consensus_reached(cast)]
          /\ status' = [d \in Range(DaemonDevices) |->
                           IF d \in overdue THEN "offline" ELSE status[d]]
    /\ UNCHANGED <<system, overdue, total_requests, approved_requests,
                   denied_requests, daemon_call,
                   daemon_answer>>
    /\ UNCHANGED otherThanDaemon

\* `self.approved_requests += 1` or `self.denied_requests += 1`: the
\* attribute is loaded.
LoadCounter ==
    /\ system = "consensus_daemon"
    /\ \E i \in DOMAIN clients :
          /\ clients[i].pc = "load_counter"
          /\ clients' = [clients EXCEPT
                            ![i].pc = "store_counter",
                            ![i].loaded = IF clients[i].reached
                                          THEN approved_requests
                                          ELSE denied_requests]
    /\ UNCHANGED <<system, overdue, status, total_requests,
                   approved_requests, denied_requests, daemon_call,
                   daemon_answer>>
    /\ UNCHANGED otherThanDaemon

\* `self.approved_requests += 1` or `self.denied_requests += 1`: the sum is
\* stored, and request_consensus returns.
StoreCounter ==
    /\ system = "consensus_daemon"
    /\ \E i \in DOMAIN clients :
          /\ clients[i].pc = "store_counter"
          /\ IF clients[i].reached
             THEN /\ approved_requests' = clients[i].loaded + 1
                  /\ UNCHANGED denied_requests
             ELSE /\ denied_requests' = clients[i].loaded + 1
                  /\ UNCHANGED approved_requests
          /\ clients' = [clients EXCEPT ![i].pc = "done"]
    /\ UNCHANGED <<system, overdue, status, total_requests, daemon_call,
                   daemon_answer>>
    /\ UNCHANGED otherThanDaemon

ThreadsNext ==
    \/ AcceptClient
    \/ LoadTotal
    \/ StoreTotal
    \/ PollDevices
    \/ LoadCounter
    \/ StoreCounter
    \/ DeviceFallsSilent

otherThanOrchestrator ==
    <<shamirVars, serVars, ersVars, appVars, netVars, daemonVars, bootVars, mpcVars, bridgeVars>>

(***************************************************************************)
(* network_orchestrator: UbuntuSecureNetwork driven by NetworkSimulator.   *)
(***************************************************************************)
OrchestratorNodes == <<"laptop", "phone", "pi", "cloud", "friend">>

SyscallTypes == {"FileOpen", "FileWrite", "ProcessExec"}

\* One path of each kind get_node_vote tells apart: critical, under /home/,
\* under /tmp/, and none of these.
OrchestratorPaths ==
    {<<"etc", "sudoers">>, <<"home", "user", "notes.txt">>,
     <<"tmp", "test_file.txt">>, <<"root", ".ssh", "authorized_keys">>}

\* The id under which transactions are submitted, and resubmitted.
TransactionIds == {"tx_0001"}

UserIds == {0, 1000}

Initiators == {"laptop", "phone"}

\* int(time.time() / 3600) % 24: an hour of the night, an hour of business.
Hours == {3, 12}

\* Bound: calls of submit_transaction.
MaxSubmissions == 2

\* any(tx.path.startswith(p) for p in critical_paths)
is_critical(path) ==
    \E dir \in {"etc", "boot", "usr", "bin", "sys", "proc", ".ssh"} :
        StartsWith(path, dir)

\* get_node_vote(node_name, node_info, tx).vote; `lucky` is
\* random.random() < 0.7.
get_node_vote(node_name, tx, lucky, hour) ==
    IF node_name = "laptop"
    THEN IF tx.initiator_node = "laptop" THEN "APPROVE"
         ELSE IF lucky THEN "APPROVE" ELSE "DENY"
    ELSE IF node_name = "phone"
    THEN IF is_critical(tx.path) THEN "DENY"
         ELSE IF StartsWith(tx.path, "home") THEN "APPROVE" ELSE "DENY"
    ELSE IF node_name = "pi"
    THEN IF is_critical(tx.path) THEN "DENY"
         ELSE IF tx.syscall_type \in {"ProcessExec", "PermissionChange"}
         THEN "DENY"
         ELSE IF StartsWith(tx.path, "home") /\ tx.syscall_type = "FileOpen"
         THEN "APPROVE"
         ELSE "DENY"
    ELSE IF node_name = "cloud"
    THEN IF tx.user_id = 0 THEN "DENY"
         ELSE IF is_critical(tx.path) /\ tx.syscall_type = "FileWrite"
         THEN "DENY"
         ELSE IF StartsWith(tx.path, "tmp") \/ StartsWith(tx.path, "home")
         THEN "APPROVE"
         ELSE IF is_critical(tx.path) THEN "DENY" ELSE "APPROVE"
    ELSE IF node_name = "friend"
    THEN IF 9 <= hour /\ hour <= 17
         THEN (IF ~is_critical(tx.path) THEN "APPROVE" ELSE "DENY")
         ELSE (IF is_critical(tx.path) THEN "DENY" ELSE "APPROVE")
    ELSE "DENY"

\* collect_votes(tx): the vote of every node, in the order of NODES.
collect_votes(tx, lucky, hour) ==
    [n \in DOMAIN OrchestratorNodes |->
        get_node_vote(OrchestratorNodes[n], tx, lucky, hour)]

\* A mutant of update_reputations: no floor and no cap.
update_reputationsUnbounded(reputations, cast, outcome) ==
    LET consensus_vote == IF outcome.approved THEN "APPROVE" ELSE "DENY"
    IN  [n \in DOMAIN OrchestratorNodes |->
            IF cast[n] = consensus_vote
            THEN reputations[n] + 1
            ELSE reputations[n] - 2]

\* A mutant of update_reputations: the penalty is the size of the reward.
update_reputationsEven(reputations, cast, outcome) ==
    LET consensus_vote == IF outcome.approved THEN "APPROVE" ELSE "DENY"
        Min(a, b) == IF a < b THEN a ELSE b
        Max(a, b) == IF a > b THEN a ELSE b
    IN  [n \in DOMAIN OrchestratorNodes |->
            IF cast[n] = consensus_vote
            THEN Min(100, reputations[n] + 1)
            ELSE Max(0, reputations[n] - 1)]

\* update_reputations(votes, result)
update_reputations(reputations, cast, outcome) ==
    LET consensus_vote == IF outcome.approved THEN "APPROVE" ELSE "DENY"
        Min(a, b) == IF a < b THEN a ELSE b
        Max(a, b) == IF a > b THEN a ELSE b
    IN  [n \in DOMAIN OrchestratorNodes |->
            IF cast[n] = consensus_vote
            THEN Min(100, reputations[n] + 1)
            ELSE Max(0, reputations[n] - 2)]

NoSubmission == [id |-> "", votes |-> <<>>, result |-> NoTally]

OrchestratorIdle ==
    /\ active_transactions = <<>>
    /\ consensus_results = <<>>
    /\ node_reputations = <<>>
    /\ submission_count = 0
    /\ submitted = NoSubmission

\* UbuntuSecureNetwork(): every node starts with a reputation of 100.
OrchestratorStart ==
    /\ system = "network_simulator"
    /\ active_transactions = <<>>
    /\ consensus_results = <<>>
    /\ node_reputations = [n \in DOMAIN OrchestratorNodes |-> 100]
    /\ submission_count = 0
    /\ submitted = NoSubmission

\* The privilege escalation of simulate_attack_scenarios: the laptop asks to
\* write /etc/sudoers.
EscalationAttempt ==
    [id |-> "tx_0001", syscall_type |-> "FileWrite", path |-> <<"etc", "sudoers">>,
     user_id |-> 1000, initiator_node |-> "laptop"]

\* A network after many rounds: the laptop has submitted EscalationAttempt
\* again and again; it alone approved every time and lost 2 points per round,
\* with one point regained in a round it agreed with.
OrchestratorAfterRounds ==
    LET cast == collect_votes(EscalationAttempt, TRUE, 12)
        outcome == calculate_consensus(cast)
    IN  /\ system = "network_simulator"
        /\ active_transactions = DictSet(<<>>, "tx_0001", EscalationAttempt)
        /\ consensus_results = DictSet(<<>>, "tx_0001", outcome)
        /\ node_reputations =
               [n \in DOMAIN OrchestratorNodes |-> IF n = 1 THEN 1 ELSE 100]
        /\ submission_count = 0
        /\ submitted = [id |-> "tx_0001", votes |-> cast, result |-> outcome]

\* submit_transaction(tx)
SubmitTransaction ==
    /\ system = "network_simulator"
    /\ submission_count < MaxSubmissions
    /\ \E id \in TransactionIds, syscall_type \in SyscallTypes,
          path \in OrchestratorPaths, user_id \in UserIds,
          initiator \in Initiators, hour \in Hours :
       \E lucky \in (IF initiator = "laptop" THEN {TRUE} ELSE BOOLEAN) :
          LET tx == [id |-> id, syscall_type |-> syscall_type, path |-> path,
                     user_id |-> user_id, initiator_node |-> initiator]
              cast == collect_votes(tx, lucky, hour)
              outcome == calculate_consensus(cast)
          IN  /\ active_transactions' = DictSet(active_transactions, id, tx)
              /\ consensus_results' = DictSet(consensus_results, id, outcome)
              /\ node_reputations' =
                     update_reputations(node_reputations, cast, outcome)
              /\ submitted' = [id |-> id, votes |-> cast, result |-> outcome]
    /\ submission_count' = submission_count + 1
    /\ UNCHANGED system
    /\ UNCHANGED otherThanOrchestrator

OrchestratorNext == SubmitTransaction

otherThanBoot ==
    <<shamirVars, serVars, ersVars, appVars, netVars, daemonVars,
      orchestratorVars, mpcVars, bridgeVars>>

(***************************************************************************)
(* BootstrapProtocol (secure_boot.py).  A share is a pair <<x, y>>; None   *)
(* is the empty tuple.                                                     *)
(***************************************************************************)
NoShare == <<>>

\* available_devices of collect_threshold_shares, in order.
available_devices == <<"phone", "yubikey", "friend">>

\* What a device does with the request: it approves and sends its share, it
\* approves with no share in the response, it rejects, the connection fails
\* (socket.error), or the response cannot be read (any other exception).
DeviceReplies ==
    {"share", "approved_without_share", "rejected", "unreachable", "error"}

\* The thresholds of the ThresholdBootSystem handed to BootstrapProtocol.
BootThresholds == {2, DefaultThreshold, 4}

\* Bound: calls of collect_threshold_shares on one BootstrapProtocol.
MaxBoots == 2

\* The mock share of the Phase 1 fallback.
MockShare(device_type) ==
    IF device_type = "phone" THEN <<1, 12345>>
    ELSE IF device_type = "yubikey" THEN <<2, 67890>>
    ELSE IF device_type = "friend" THEN <<3, 11111>>
    ELSE NoShare

\* The share the device at position n holds.
DeviceShare(n) == <<n, 100 + n>>

\* request_share_from_device(endpoint, device_type), given what the device
\* does.
request_share_from_device(n, reply) ==
    IF reply = "share" THEN DeviceShare(n)
    ELSE IF reply = "unreachable" THEN MockShare(available_devices[n])
    ELSE NoShare

\* The loop of collect_threshold_shares from device n on: the shares held,
\* what the devices asked did, and the value returned.
RECURSIVE CollectFrom(_, _, _, _, _)
CollectFrom(n, held, did, answer, needed) ==
    IF n > Len(available_devices)
    THEN [collected |-> held, replies |-> did, ret |-> FALSE]
    ELSE LET more == Append(held, request_share_from_device(n, answer[n]))
             done == Append(did, answer[n])
         IN  IF Len(more) >= needed
             THEN [collected |-> more, replies |-> done, ret |-> TRUE]
             ELSE CollectFrom(n + 1, more, done, answer, needed)

NoBoot == [op |-> "", ret |-> FALSE, calls |-> 0]

BootIdle ==
    /\ boot_threshold = 0
    /\ collected_shares = <<>>
    /\ replies = <<>>
    /\ boot_call = NoBoot

\* BootstrapProtocol(threshold_system)
BootStart ==
    /\ system = "bootstrap"
    /\ boot_threshold \in BootThresholds
    /\ collected_shares = <<>>
    /\ replies = <<>>
    /\ boot_call = NoBoot

\* collect_threshold_shares(), called as `op`.
Collect(op) ==
    /\ system = "bootstrap"
    /\ boot_call.calls < MaxBoots
    /\ \E answer \in [DOMAIN available_devices -> DeviceReplies] :
          LET got == CollectFrom(1, collected_shares, replies, answer,
                                 boot_threshold)
          IN  /\ collected_shares' = got.collected
              /\ replies' = got.replies
              /\ boot_call' = [op |-> op, ret |-> got.ret,
                               calls |-> boot_call.calls + 1]
    /\ UNCHANGED <<system, boot_threshold>>
    /\ UNCHANGED otherThanBoot

CollectThresholdShares == Collect("collect_threshold_shares")

\* execute_secure_boot(): the shares are collected; the mock key, the mock
\* image and verify_boot_integrity never fail.
ExecuteSecureBoot == Collect("execute_secure_boot")

BootNext == CollectThresholdShares \/ ExecuteSecureBoot

(***************************************************************************)
(* MPCCoordinator and MPCNode (2/mpc_compute.py).                          *)
(* A result dict is represented by its node_id and the fields              *)
(* verify_consensus reads: "allowed" and "vote" hold their value or        *)
(* "absent"; signature_fragment and error tell whether the field is        *)
(* present.  The timestamp, hash and connection_id fields are left out:    *)
(* no code reads them.                                                     *)
(***************************************************************************)
otherThanMpc ==
    <<shamirVars, serVars, ersVars, appVars, netVars, daemonVars,
      orchestratorVars, bootVars, bridgeVars>>

\* node_configs of demonstrate_mpc_security, in order.
MpcNodes == <<"laptop", "phone", "pi", "riscv", "cloud">>

\* The default of request.get("parameters", {}) and of every
\* operation.parameters.get.
NoParameters == [filepath |-> "", host |-> "", port |-> 0, purpose |-> ""]

\* The operations submitted: the four kinds execute_operation knows, with a
\* parameter on each side of its test, and one kind it does not know.
MpcOperations ==
    {[operation_type |-> "file_read",
      parameters |-> [NoParameters EXCEPT !.filepath = f]] :
         f \in {"/etc/shadow", "/home/user/document.txt"}}
    \cup {[operation_type |-> "network_access",
           parameters |-> [NoParameters EXCEPT !.host = h, !.port = 443]] :
              h \in {"evil.com", "google.com"}}
    \cup {[operation_type |-> "camera_access",
           parameters |-> [NoParameters EXCEPT !.purpose = p]] :
              p \in {"", "video_call"}}
    \cup {[operation_type |-> "crypto_sign", parameters |-> NoParameters],
          [operation_type |-> "usb_access", parameters |-> NoParameters]}

\* Bound: the values of required_consensus submitted, from 1.
MaxRequired == 4

\* "/etc/shadow" in filepath or "/root" in filepath, over the file paths
\* submitted.
SensitiveFile(filepath) == filepath \in {"/etc/shadow"}

\* "evil.com" in host or port == 6666
SuspiciousHost(host, port) == host = "evil.com" \/ port = 6666

ResultOf(node_id) ==
    [node_id |-> node_id, allowed |-> "absent", vote |-> "absent",
     signature_fragment |-> FALSE, error |-> FALSE]

\* MPCNode.execute_operation(operation)
execute_operation(node_id, operation) ==
    LET answer == ResultOf(node_id)
        parameters == operation.parameters
    IN  IF operation.operation_type = "file_read"
        THEN [answer EXCEPT !.allowed =
                 IF SensitiveFile(parameters.filepath) THEN "False" ELSE "True"]
        ELSE IF operation.operation_type = "network_access"
        THEN [answer EXCEPT !.allowed =
                 IF SuspiciousHost(parameters.host, parameters.port)
                 THEN "False" ELSE "True"]
        ELSE IF operation.operation_type = "camera_access"
        THEN [answer EXCEPT !.vote =
                 IF parameters.purpose # "" THEN "approve" ELSE "deny"]
        ELSE IF operation.operation_type = "crypto_sign"
        THEN [answer EXCEPT !.signature_fragment = TRUE]
        ELSE [answer EXCEPT !.error = TRUE]

\* MPCNode.handle_request: the answer sent when receiving or decoding the
\* request raised.
ErrorResult(node_id) == [ResultOf(node_id) EXCEPT !.error = TRUE]

\* What a node whose software is not the one above can answer.
ForgedResults(node_id) ==
    {[ResultOf(node_id) EXCEPT !.allowed = a] : a \in {"True", "False"}}
    \cup {[ResultOf(node_id) EXCEPT !.vote = v] : v \in {"approve", "deny"}}
    \cup {[ResultOf(node_id) EXCEPT !.signature_fragment = TRUE]}

\* What happens to the request sent to a node: it is executed, handling it
\* raises, or connecting to the node fails.
NodeFates == {"executed", "raised", "unreachable"}

\* verify_consensus: the key a result is grouped under.
ResultKey(r) ==
    IF r.allowed # "absent"
    THEN (IF r.allowed = "True" THEN "allowed:True" ELSE "allowed:False")
    ELSE IF r.vote # "absent"
    THEN (IF r.vote = "approve" THEN "vote:approve" ELSE "vote:deny")
    ELSE IF r.signature_fragment THEN "signature"
    ELSE "unknown"

\* len(agreements[key])
Agreeing(results, key) ==
    Cardinality({i \in DOMAIN results : ResultKey(results[i]) = key})

NoOutcome ==
    [consensus |-> FALSE, reason |-> "", decision |-> "",
     agreeing_nodes |-> 0, total_nodes |-> 0, results |-> ResultOf("")]

\* A mutant of verify_consensus: one result less than required is enough.
verify_consensusOneShort(results, required) ==
    IF Len(results) < required - 1
    THEN [NoOutcome EXCEPT !.reason = "Insufficient responses"]
    ELSE LET enough == {i \in DOMAIN results :
                 Agreeing(results, ResultKey(results[i])) >= required - 1}
         IN  IF enough = {}
             THEN [NoOutcome EXCEPT
                      !.reason = "No sufficient agreement among nodes"]
             ELSE LET first == CHOOSE i \in enough : \A j \in enough : i <= j
                      key == ResultKey(results[first])
                  IN  [consensus |-> TRUE, reason |-> "", decision |-> key,
                       agreeing_nodes |-> Agreeing(results, key),
                       total_nodes |-> Len(results),
                       results |-> results[first]]

\* MPCCoordinator.verify_consensus(results, required).  agreements is a dict:
\* its keys are visited in the order of their first result, so the key
\* returned is that of the first result whose group is large enough, and
\* agreeing_nodes[0] is that result.
verify_consensus(results, required) ==
    IF Len(results) < required
    THEN [NoOutcome EXCEPT !.reason = "Insufficient responses"]
    ELSE LET enough == {i \in DOMAIN results :
                 Agreeing(results, ResultKey(results[i])) >= required}
         IN  IF enough = {}
             THEN [NoOutcome EXCEPT
                      !.reason = "No sufficient agreement among nodes"]
             ELSE LET first == CHOOSE i \in enough : \A j \in enough : i <= j
                      key == ResultKey(results[first])
                  IN  [consensus |-> TRUE, reason |-> "", decision |-> key,
                       agreeing_nodes |-> Agreeing(results, key),
                       total_nodes |-> Len(results),
                       results |-> results[first]]

\* The place of a node that could not be reached: no result is received.
NoAnswer == ResultOf("")

\* execute_distributed: the results received, in node order; a node that
\* could not be reached adds none.
RECURSIVE ReceivedFrom(_, _)
ReceivedFrom(answers, n) ==
    IF n = 0 THEN <<>>
    ELSE IF answers[n] = NoAnswer THEN ReceivedFrom(answers, n - 1)
    ELSE Append(ReceivedFrom(answers, n - 1), answers[n])

\* The answer of a node: NoAnswer if it was not reached.
AnswerOf(node_id, fate, operation) ==
    IF fate = "executed" THEN execute_operation(node_id, operation)
    ELSE IF fate = "raised" THEN ErrorResult(node_id)
    ELSE NoAnswer

MpcIdle ==
    /\ mpc_operation = [operation_type |-> "", parameters |-> NoParameters]
    /\ mpc_required = 0
    /\ mpc_results = <<>>
    /\ mpc_outcome = NoOutcome
    /\ mpc_calls = 0

\* MPCCoordinator(node_configs); start_nodes()
MpcStart ==
    /\ system = "mpc_compute"
    /\ MpcIdle

\* execute_distributed(operation).  The laptop, the node the module expects
\* to be compromised, may answer with any result; the others run
\* execute_operation.
ExecuteDistributed ==
    /\ system = "mpc_compute"
    /\ mpc_calls = 0
    /\ \E operation \in MpcOperations, required \in 1..MaxRequired,
          fates \in [DOMAIN MpcNodes -> NodeFates],
          forged \in ForgedResults(MpcNodes[1]) \cup {NoAnswer} :
          LET answers == [n \in DOMAIN MpcNodes |->
                            IF n = 1 /\ forged # NoAnswer /\ fates[n] = "executed"
                            THEN forged
                            ELSE AnswerOf(MpcNodes[n], fates[n], operation)]
              results == ReceivedFrom(answers, Len(MpcNodes))
          IN  /\ mpc_operation' = operation
              /\ mpc_required' = required
              /\ mpc_results' = results
              /\ mpc_outcome' = verify_consensus(results, required)
    /\ mpc_calls' = mpc_calls + 1
    /\ UNCHANGED system
    /\ UNCHANGED otherThanMpc

MpcNext == ExecuteDistributed

(***************************************************************************)
(* The syscall handlers: ConsensusDaemon.handle_client and                 *)
(* BlockchainBridge.handle_client (2/blockchain_bridge.py).                *)
(* A connection either delivers its request, or its bytes are no UTF-8     *)
(* (decode raises), or it is lost before the request is received or        *)
(* before the answer is sent (recv or send raises OSError).  The answer is *)
(* the last one the handler sends; on a lost connection the send of the    *)
(* except clause raises too and the client receives nothing.               *)
(***************************************************************************)
otherThanBridge ==
    <<shamirVars, serVars, ersVars, appVars, netVars, daemonVars,
      orchestratorVars, bootVars, mpcVars>>

ClientFaults == {"none", "decode_error", "lost_before", "lost_after"}

\* Bound: connections handled by a handler.
MaxConnections == 2

\* The requests "operation|details" the interceptor sends.
InterceptedRequests ==
    {<<"sudo", <<"apt", " ", "install", " ", "firefox">>>>,
     <<"sudo", <<"RM", " ", "-RF", " ", "/">>>>,
     <<"file_write", <<"/", "etc", "/", "passwd">>>>,
     <<"file_write", <<"/", "etc", "/", "hosts">>>>,
     <<"network", <<>>>>}

\* A mutant of DaemonResponse: the except clause lets the request through.
DaemonResponseFailOpen(fault, approved) ==
    IF fault = "none" THEN (IF approved THEN "APPROVE" ELSE "DENY")
    ELSE "APPROVE"

\* ConsensusDaemon.handle_client: the answer of the try block, or the one
\* of the except clause.
DaemonResponse(fault, approved) ==
    IF fault = "none" THEN (IF approved THEN "APPROVE" ELSE "DENY")
    ELSE "DENY"

\* ConsensusDaemon.handle_client(client_socket)
DaemonHandleClient ==
    /\ system = "consensus_daemon"
    /\ daemon_answer.n < MaxConnections
    /\ \E fault \in ClientFaults, request \in InterceptedRequests :
          LET operation == request[1]
              details == request[2]
              cast == [d \in Range(DaemonDevices) |->
                          DeviceVote(DeviceType[d], DeviceTrust[d],
                                     d \in overdue, operation, details)]
              reached == consensus_reached(cast)
          IN  IF fault \in {"none", "lost_after"}
              THEN /\ total_requests' = total_requests + 1
                   /\ status' = [d \in Range(DaemonDevices) |->
                                    IF d \in overdue THEN "offline"
                                    ELSE status[d]]
                   /\ approved_requests' =
                         approved_requests + (IF reached THEN 1 ELSE 0)
                   /\ denied_requests' =
                         denied_requests + (IF reached THEN 0 ELSE 1)
                   /\ daemon_call' =
                         [operation |-> operation, details |-> details,
                          votes |-> cast, ret |-> reached]
                   /\ daemon_answer' =
                         [n |-> daemon_answer.n + 1, fault |-> fault,
                          answer |-> DaemonResponse(fault, reached)]
              ELSE /\ UNCHANGED <<total_requests, status, approved_requests,
                                  denied_requests, daemon_call>>
                   /\ daemon_answer' =
                         [n |-> daemon_answer.n + 1, fault |-> fault,
                          answer |-> DaemonResponse(fault, FALSE)]
    /\ UNCHANGED <<system, overdue, clients>>
    /\ UNCHANGED otherThanDaemon

\* _simulate_validator_consensus: the trust of validator-1, validator-2-arm
\* and validator-3-riscv, in hundredths.
ValidatorTrust == <<80, 90, 70>>

\* SubstrateClient._validator_vote(validator, operation, details)
validator_vote(trust, operation, details) ==
    IF trust < 50 THEN "ABSTAIN"
    ELSE IF operation = "sudo"
    THEN IF AnyIn({<<"rm", " ", "-rf">>, <<"dd", " ", "if=">>, <<"mkfs">>,
                   <<"fdisk">>, <<"userdel">>, <<"passwd", " ", "root">>},
                  Lower(details))
         THEN (IF trust >= 80 THEN "APPROVE" ELSE "DENY")
         ELSE (IF trust >= 60 THEN "APPROVE" ELSE "DENY")
    ELSE IF operation = "file_write"
    THEN IF AnyIn(critical_paths, details)
         THEN (IF trust >= 90 THEN "APPROVE" ELSE "DENY")
         ELSE IF AnyIn({<<"/", "etc", "/">>, <<"/", "usr", "/">>,
                        <<"/", "var", "/">>}, details)
         THEN (IF trust >= 70 THEN "APPROVE" ELSE "DENY")
         ELSE "APPROVE"
    ELSE (IF trust >= 60 THEN "APPROVE" ELSE "DENY")

\* SubstrateClient._simulate_validator_consensus(operation, details)
simulate_validator_consensus(operation, details) ==
    LET approvals ==
            Cardinality({v \in DOMAIN ValidatorTrust :
                validator_vote(ValidatorTrust[v], operation, details)
                    = "APPROVE"})
        consensus_threshold == (Len(ValidatorTrust) \div 2) + 1
    IN  approvals >= consensus_threshold

\* What the node does with the extrinsic: it answers with a "result", it
\* answers with an "error", it does not answer within 10 seconds, or the
\* websocket raises.
RpcOutcomes == {"result", "rpc_error", "timeout", "websocket_error"}

\* SubstrateClient.submit_consensus_request(operation, details): every
\* exception is caught inside and returns False.
submit_consensus_request(rpc, operation, details) ==
    IF rpc = "result" THEN simulate_validator_consensus(operation, details)
    ELSE FALSE

\* BlockchainBridge.handle_client: the answer of the try block, or the one
\* of the outer except clause.
BridgeResponse(fault, approved) ==
    IF fault = "none" THEN (IF approved THEN "APPROVE" ELSE "DENY")
    ELSE "DENY"

NoStats ==
    [total_requests |-> 0, approved |-> 0, denied |-> 0,
     blockchain_errors |-> 0]

NoBridgeCall ==
    [n |-> 0, fault |-> "", rpc |-> "", operation |-> "", details |-> <<>>,
     approved |-> FALSE, answer |-> ""]

BridgeIdle ==
    /\ bridge_stats = NoStats
    /\ bridge_call = NoBridgeCall

\* BlockchainBridge(), started and connected to the node.
BridgeStart ==
    /\ system = "blockchain_bridge"
    /\ BridgeIdle

\* BlockchainBridge.handle_client(client_socket)
BridgeHandleClient ==
    /\ system = "blockchain_bridge"
    /\ bridge_call.n < MaxConnections
    /\ \E fault \in ClientFaults, rpc \in RpcOutcomes,
          request \in InterceptedRequests :
          LET operation == request[1]
              details == request[2]
              approved == submit_consensus_request(rpc, operation, details)
          IN  IF fault \in {"none", "lost_after"}
              THEN /\ bridge_stats' =
                         [bridge_stats EXCEPT
                             !.total_requests = @ + 1,
                             !.approved = @ + (IF approved THEN 1 ELSE 0),
                             !.denied = @ + (IF approved THEN 0 ELSE 1)]
                   /\ bridge_call' =
                         [n |-> bridge_call.n + 1, fault |-> fault,
                          rpc |-> rpc, operation |-> operation,
                          details |-> details, approved |-> approved,
                          answer |-> BridgeResponse(fault, approved)]
              ELSE /\ UNCHANGED bridge_stats
                   /\ bridge_call' =
                         [n |-> bridge_call.n + 1, fault |-> fault,
                          rpc |-> "", operation |-> "", details |-> <<>>,
                          approved |-> FALSE,
                          answer |-> BridgeResponse(fault, FALSE)]
    /\ UNCHANGED system
    /\ UNCHANGED otherThanBridge

HandlersNext == DaemonHandleClient \/ DeviceFallsSilent \/ BridgeHandleClient

(***************************************************************************)
(* Specifications.                                                         *)
(***************************************************************************)
ShamirInit == ShamirStart /\ SerIdle /\ ErsIdle /\ AppIdle /\ NetIdle /\ DaemonIdle
        /\ OrchestratorIdle /\ BootIdle /\ MpcIdle /\ BridgeIdle

SerInit == SerStart /\ ShamirIdle /\ ErsIdle /\ AppIdle /\ NetIdle /\ DaemonIdle
        /\ OrchestratorIdle /\ BootIdle /\ MpcIdle /\ BridgeIdle

ErsInit == ErsStart /\ ShamirIdle /\ SerIdle /\ AppIdle /\ NetIdle /\ DaemonIdle
        /\ OrchestratorIdle /\ BootIdle /\ MpcIdle /\ BridgeIdle

\* EmergencyRevocationSystem(device_id), revocation_threshold left to its
\* default.
ErsDefaultInit == ErsInit /\ ers_threshold = DefaultRevocationThreshold

\* EmergencyRevocationSystem(device_id) in a run with room for one more
\* collect_votes thread.
ErsConcurrentInit ==
    /\ system = "emergency_revocation"
    /\ ers_threshold = DefaultRevocationThreshold
    /\ thread_slots = MaxThreads + 1
    /\ switch_pc = "off"
    /\ is_revoked = FALSE
    /\ is_locked = FALSE
    /\ friends = {}
    /\ pending_votes = <<>>
    /\ revocation_log = <<>>
    /\ false_alarm_count = 0
    /\ heartbeat_overdue = FALSE
    /\ collectors = <<>>
    /\ ShamirIdle /\ SerIdle /\ AppIdle /\ NetIdle /\ DaemonIdle
    /\ OrchestratorIdle /\ BootIdle /\ MpcIdle /\ BridgeIdle

\* EmergencyRevocationSystem(device_id) with its dead_mans_switch started
\* in a thread.
ErsSwitchInit ==
    /\ system = "emergency_revocation"
    /\ ers_threshold = DefaultRevocationThreshold
    /\ thread_slots = MaxThreads
    /\ switch_pc = "test"
    /\ is_revoked = FALSE
    /\ is_locked = FALSE
    /\ friends = {}
    /\ pending_votes = <<>>
    /\ revocation_log = <<>>
    /\ false_alarm_count = 0
    /\ heartbeat_overdue = FALSE
    /\ collectors = <<>>
    /\ ShamirIdle /\ SerIdle /\ AppIdle /\ NetIdle /\ DaemonIdle
    /\ OrchestratorIdle /\ BootIdle /\ MpcIdle /\ BridgeIdle

SwitchNext == ErsNext \/ SwitchTests \/ SwitchWakes

SpecSwitch == ErsSwitchInit /\ [][SwitchNext]_vars

\* The runs in which every vote is one that a collect_votes thread records
\* for its request: no friend's device calls receive_vote by itself.
CollectedNext ==
    \/ ErsRegisterFriend
    \/ InitiateRevocation
    \/ CollectVote
    \/ TallyVotes
    \/ RequestExpires

SpecCollected == ErsDefaultInit /\ [][CollectedNext]_vars

AppInit ==
    /\ system = "local_deploy"
    /\ ShamirIdle /\ SerIdle /\ ErsIdle /\ AppIdle /\ NetIdle /\ DaemonIdle
        /\ OrchestratorIdle /\ BootIdle /\ MpcIdle /\ BridgeIdle

NetInit ==
    /\ system \in {"phase3_network", "network_orchestrator"}
    /\ ShamirIdle /\ SerIdle /\ ErsIdle /\ AppIdle /\ NetIdle /\ DaemonIdle
        /\ OrchestratorIdle /\ BootIdle /\ MpcIdle /\ BridgeIdle

SpecShamir == ShamirInit /\ [][ShamirNext]_vars

\* ThresholdBootSystem with callers that may repeat a share.
SpecShamirAny == ShamirInit /\ [][ShamirAnyNext]_vars

SpecSubstrate == SerInit /\ [][SerNext]_vars

SpecEmergency == ErsInit /\ [][ErsNext]_vars

SpecConcurrent == ErsConcurrentInit /\ [][ErsNext]_vars

\* The two revocation systems.
RevocationNext == SerNext \/ ErsNext

SpecRevocation == (SerInit \/ ErsDefaultInit) /\ [][RevocationNext]_vars

\* Every place where votes are recorded and counted.
VotingNext == SerNext \/ ErsNext \/ AppNext

SpecVoting == (SerInit \/ ErsDefaultInit \/ AppInit) /\ [][VotingNext]_vars

SpecNetwork == NetInit /\ [][NetNext]_vars

OrchestratorInit ==
    /\ OrchestratorStart
    /\ ShamirIdle /\ SerIdle /\ ErsIdle /\ AppIdle /\ NetIdle /\ DaemonIdle
    /\ BootIdle /\ MpcIdle /\ BridgeIdle

SpecOrchestrator == OrchestratorInit /\ [][OrchestratorNext]_vars

OrchestratorLateInit ==
    /\ OrchestratorAfterRounds
    /\ ShamirIdle /\ SerIdle /\ ErsIdle /\ AppIdle /\ NetIdle /\ DaemonIdle
    /\ BootIdle /\ MpcIdle /\ BridgeIdle

\* The orchestrator, fresh or after many rounds.
SpecReputation ==
    (OrchestratorInit \/ OrchestratorLateInit) /\ [][OrchestratorNext]_vars

BootInit ==
    /\ BootStart
    /\ ShamirIdle /\ SerIdle /\ ErsIdle /\ AppIdle /\ NetIdle /\ DaemonIdle
    /\ OrchestratorIdle /\ MpcIdle /\ BridgeIdle

MpcInit ==
    /\ MpcStart
    /\ ShamirIdle /\ SerIdle /\ ErsIdle /\ AppIdle /\ NetIdle /\ DaemonIdle
    /\ OrchestratorIdle /\ BootIdle /\ BridgeIdle

BridgeInit ==
    /\ BridgeStart
    /\ ShamirIdle /\ SerIdle /\ ErsIdle /\ AppIdle /\ NetIdle /\ DaemonIdle
    /\ OrchestratorIdle /\ BootIdle /\ MpcIdle

SpecMpc == MpcInit /\ [][MpcNext]_vars

SpecBoot == BootInit /\ [][BootNext]_vars

\* Every place that returns a result for an operation or a transaction id.
ResultsNext == AppNext \/ OrchestratorNext

SpecResults == (AppInit \/ OrchestratorInit) /\ [][ResultsNext]_vars

\* The two 5-node networks.
FiveNodesNext == NetNext \/ OrchestratorNext

SpecFiveNodes == (NetInit \/ OrchestratorInit) /\ [][FiveNodesNext]_vars

DaemonInit ==
    /\ DaemonStart /\ ShamirIdle /\ SerIdle /\ ErsIdle /\ AppIdle /\ NetIdle
    /\ OrchestratorIdle /\ BootIdle /\ MpcIdle /\ BridgeIdle

SpecDaemon == DaemonInit /\ [][DaemonNext]_vars

\* The daemon serving its clients in threads, as start() does.
SpecThreads == DaemonInit /\ [][ThreadsNext]_vars

\* The two handlers of the interceptor's socket.
SpecHandlers == (DaemonInit \/ BridgeInit) /\ [][HandlersNext]_vars

\* Every program whose participants vote by a policy: Device.vote, Node.vote
\* and get_node_vote.
PoliciesNext == DaemonNext \/ NetNext \/ OrchestratorNext

SpecPolicies ==
    (DaemonInit \/ NetInit \/ OrchestratorInit) /\ [][PoliciesNext]_vars

\* Every tally of votes against a quorum.
TalliesNext == DaemonNext \/ NetNext \/ SerNext

SpecTallies == (DaemonInit \/ NetInit \/ SerInit) /\ [][TalliesNext]_vars

(***************************************************************************)
(* Claims about ThresholdBootSystem.                                       *)
(***************************************************************************)

\* C1: reconstruct_key applied to any `threshold` distinct shares returned by
\* split_key for a full-length master key, in any order, returns exactly the
\* master key.
C1_ReconstructReturnsKey ==
    (/\ phase = "reconstructed"
     /\ Len(master_key) = KeyBytes
     /\ Len(given) = threshold)
        => result = Returned(master_key)

\* A reconstruction of a non-zero key at the default threshold from three
\* shares handed over out of x order.
C1_Witness ==
    /\ phase = "reconstructed"
    /\ threshold = DefaultThreshold
    /\ Len(master_key) = KeyBytes
    /\ FromBytes(master_key) # 0
    /\ Len(given) = threshold
    /\ given[1][1] > given[2][1]
    /\ given[2][1] < given[3][1]
    /\ result = Returned(master_key)

\* C2: reconstruct_key called with fewer than `threshold` shares (the empty
\* list included) raises ValueError and returns no key.
C2_TooFewSharesRaise ==
    (phase = "reconstructed" /\ Len(given) < threshold)
        => (result.err = "ValueError" /\ result.key = <<>>)

\* A call with exactly threshold - 1 >= 1 shares was rejected.
C2_Witness ==
    /\ phase = "reconstructed"
    /\ threshold >= 2
    /\ Len(given) = threshold - 1
    /\ result.err = "ValueError"

\* Number of choices of the threshold - 1 random coefficients under which
\* candidate secret s yields the y values observed at the x-coordinates X.
Consistent(s, X) ==
    Cardinality({r \in [1..(threshold - 1) -> 0..(prime - 1)] :
                    \A x \in X : PolyEval(<<s>> \o r, x) = shares[x][2]})

\* C3: after split_key, for any threshold - 1 of the x-coordinates and the y
\* values issued there, every candidate secret of the field is consistent
\* with the same number of choices of the random coefficients.
C3_SubThresholdSecrecy ==
    phase = "split" =>
        \A X \in SUBSET (1..total_shares) :
            Cardinality(X) = threshold - 1 =>
                \A s1, s2 \in 0..(prime - 1) :
                    Consistent(s1, X) = Consistent(s2, X)

\* A split at the default threshold of a non-zero secret, where two observed
\* shares leave exactly one coefficient choice for a secret that is not the
\* real one.
C3_Witness ==
    /\ phase = "split"
    /\ threshold = DefaultThreshold
    /\ FromBytes(master_key) # 0
    /\ Consistent(0, {1, 2}) = 1

\* The scenario secret b"test-key": 8 bytes where the key has 64, here one
\* byte where the key has KeyBytes.
TestKey == <<1>>

ScenarioShares ==
    /\ Len(given) = 3
    /\ <<given[1][1], given[2][1], given[3][1]>> \in {<<1, 3, 5>>, <<2, 4, 5>>}

\* C4: splitting b"test-key" with K=3, N=5 and reconstructing from the
\* shares at x=1,3,5 or at x=2,4,5 yields b"test-key", same bytes and length.
C4_ScenarioRoundTrip ==
    (/\ phase = "reconstructed"
     /\ threshold = 3 /\ total_shares = 5
     /\ master_key = TestKey
     /\ ScenarioShares)
        => result = Returned(TestKey)

(***************************************************************************)
(* Claims about revocation and voting.                                     *)
(***************************************************************************)

\* C5: revocation is irreversible: a device in revoked_devices stays there
\* and is_revoked, once TRUE, stays TRUE, whatever request, vote, heartbeat
\* or expiry comes later.
C5_RevocationIrreversible ==
    [][/\ revoked_devices \subseteq revoked_devices'
       /\ is_revoked => is_revoked']_vars

\* The system is revoked, and a request made since then has its
\* collect_votes thread running and its requester's mark among the votes.
C5_Witness ==
    /\ is_revoked
    /\ Alive(collectors) # {}
    /\ \E f \in DOMAIN pending_votes : pending_votes[f] = "INITIATED"

\* The requests entered in a revocation_log.
LoggedRequests(log) ==
    Cardinality({i \in DOMAIN log : log[i] = "revocation_request"})

\* C6: once revoked, every later revocation request is rejected outright:
\* the friends are not notified, no round is opened and no votes are
\* collected.
C6_RevokedRejectsRequests ==
    [][/\ is_revoked =>
            /\ Len(collectors') <= Len(collectors)
            /\ LoggedRequests(revocation_log') <= LoggedRequests(revocation_log)
       /\ (/\ ser_call'.op = "request_revocation"
           /\ ser_call'.target \in revoked_devices)
             => /\ ser_call'.ret = "already_revoked"
                /\ ~ser_call'.notified
                /\ pending_revocations' = pending_revocations]_vars

\* Two records of the list have the same value in the field.
Repeated(list, field) ==
    \E i, j \in DOMAIN list : i < j /\ list[i][field] = list[j][field]

\* C7: at most one vote per participant and request is held: a later vote
\* by the same participant replaces the earlier one.
C7_OneVotePerParticipant ==
    /\ \A d \in DOMAIN pending_revocations :
          ~Repeated(pending_revocations[d].votes, "voter")
    /\ \A op \in DOMAIN votes : ~Repeated(votes[op], "device")

\* The friends whose "approve" is recorded in the open round for a device.
Approvers(d) ==
    IF d \in DOMAIN pending_revocations
    THEN {v.voter : v \in {w \in Range(pending_revocations[d].votes) :
                              w.vote = "approve"}}
    ELSE {}

\* C8: a device joins revoked_devices only when at least revocation_threshold
\* distinct registered friends have approved: the approvers recorded before,
\* with the one whose approval comes with the call.
C8_TwoDistinctFriends ==
    [][\A d \in Targets :
          (d \in revoked_devices' /\ d \notin revoked_devices)
             => Cardinality(Approvers(d)
                    \cup (IF ser_call'.vote = "approve"
                          THEN {ser_call'.who} \cap Range(ser_friends)
                          ELSE {})) >= 2]_vars

\* The table of the specification: votes required for a threat level.
VotesForLevel(level) ==
    CASE level \in {"critical", "stolen"} -> 1
      [] level = "high" -> 2
      [] level \in {"medium", "low"} -> 3

\* C9: the votes a request requires are fixed by its threat level alone (1
\* for CRITICAL and STOLEN, 2 for HIGH, 3 for MEDIUM and LOW), whatever the
\* constructor's revocation_threshold and however many friends are registered.
C9_RequiredVotesByLevel ==
    \A i \in Alive(collectors) :
        collectors[i].required_votes = VotesForLevel(collectors[i].threat_level)

\* A MEDIUM request in a system constructed with revocation_threshold 1 and
\* one registered friend requires 3 votes.
C9_Witness ==
    /\ ers_threshold = 1
    /\ Cardinality(friends) = 1
    /\ \E i \in DOMAIN collectors :
          /\ collectors[i].threat_level = "medium"
          /\ collectors[i].required_votes = 3

(***************************************************************************)
(* Claims about the 5-node networks.                                       *)
(***************************************************************************)
Approvals(list) == Cardinality({n \in DOMAIN list : list[n] = "APPROVE"})

\* C10: in the 5-node network a transaction is approved exactly when at
\* least 3 of the node votes are APPROVE; DENY and ABSTAIN votes alike do not
\* count toward approval.
C10_ApprovedIffThreeApprove ==
    /\ (system = "network_orchestrator" /\ tally_votes # <<>>)
          => /\ tally_result.approved <=> Approvals(tally_votes) >= 3
             /\ tally_result.consensus =
                   (IF Approvals(tally_votes) >= 3 THEN "APPROVED" ELSE "DENIED")
    /\ (system = "phase3_network" /\ transaction_count > 0)
          => (consensus <=> Approvals(node_votes) >= 3)

\* Two APPROVE, one DENY and two ABSTAIN: more for than against, and denied.
C10_Witness ==
    /\ system = "network_orchestrator"
    /\ Approvals(tally_votes) = 2
    /\ Cardinality({n \in DOMAIN tally_votes : tally_votes[n] = "DENY"}) = 1
    /\ tally_result.consensus = "DENIED"

(***************************************************************************)
(* Claims about ConsensusDaemon and the tallies.                           *)
(***************************************************************************)
\* The devices whose vote in the last request_consensus was `word`.
Voted(word) == {d \in DOMAIN daemon_call.votes : daemon_call.votes[d] = word}

\* C11: request_consensus approves exactly when the approvals reach a
\* majority of the participating voters, floor((approvals + denials) / 2) + 1,
\* the abstentions left out of both counts: exactly when the approvals
\* strictly exceed the denials.
C11_MajorityOfParticipants ==
    total_requests > 0 =>
        LET a == Cardinality(Voted("APPROVE"))
            d == Cardinality(Voted("DENY"))
        IN  /\ daemon_call.ret <=> a >= ((a + d) \div 2) + 1
            /\ daemon_call.ret <=> a > d

\* Two devices approve, the other three abstain, and the request is
\* approved.
C11_Witness ==
    /\ total_requests > 0
    /\ Cardinality(Voted("APPROVE")) = 2
    /\ Cardinality(Voted("ABSTAIN")) = 3
    /\ daemon_call.ret

\* C12: a request on which no device casts APPROVE or DENY is not
\* approved.
C12_NoParticipantsNotApproved ==
    (total_requests > 0 /\ Voted("APPROVE") = {} /\ Voted("DENY") = {})
        => /\ ~daemon_call.ret
           /\ approved_requests < total_requests

\* Every device was overdue and abstained; the request was denied.
C12_Witness ==
    /\ total_requests > 0
    /\ Voted("ABSTAIN") = Range(DaemonDevices)
    /\ status = [d \in Range(DaemonDevices) |-> "offline"]
    /\ ~daemon_call.ret
    /\ denied_requests > 0

\* The lists a round of votes can be seen as: as recorded, and with one
\* more vote of either kind.
Extended(list, yes, no) == {list, Append(list, yes), Append(list, no)}

\* _check_revocation_consensus on a round holding the votes of the list.
RoundApproved(list) ==
    CheckRevocationConsensus(
        [evil_laptop |-> [requester |-> "alice_phone", votes |-> list]],
        {}, "evil_laptop").ret

\* C13: quorum monotonicity.  In the majority tally of ConsensusDaemon, the
\* 3-of-5 tallies of the networks and the threshold tally of
\* SubstrateEmergencyRevocation, one more APPROVE never turns an approved
\* outcome into a non-approved one, and one more DENY never raises the
\* approval count.
C13_QuorumMonotone ==
    /\ system = "consensus_daemon" =>
          LET cast == daemon_call.votes
              shifts == {DictSet(cast, "sixth_device", "APPROVE")}
                           \cup {DictSet(cast, d, "APPROVE") : d \in Voted("ABSTAIN")}
          IN  /\ consensus_reached(cast)
                    => \A more \in shifts : consensus_reached(more)
              /\ CountValues(DictSet(cast, "sixth_device", "DENY"), "APPROVE")
                    = CountValues(cast, "APPROVE")
    /\ system \in {"network_orchestrator", "phase3_network"} =>
          \A list \in {tally_votes, node_votes} :
              /\ calculate_consensus(list).approved
                    => calculate_consensus(Append(list, "APPROVE")).approved
              /\ Phase3Consensus(list)
                    => Phase3Consensus(Append(list, "APPROVE"))
              /\ calculate_consensus(Append(list, "DENY")).votes_for
                    = calculate_consensus(list).votes_for
    /\ system = "substrate_revocation" =>
          \A d \in DOMAIN pending_revocations :
              \A list \in Extended(pending_revocations[d].votes,
                                   [voter |-> "bob_laptop", vote |-> "approve"],
                                   [voter |-> "bob_laptop", vote |-> "reject"]) :
                  /\ RoundApproved(list)
                        => RoundApproved(Append(list,
                              [voter |-> "charlie_tablet", vote |-> "approve"]))
                  /\ CountVotes(Append(list,
                        [voter |-> "charlie_tablet", vote |-> "reject"]), "approve")
                        = CountVotes(list, "approve")

\* A request approved by two approvals against none, the other devices
\* abstaining: one more approval leaves the threshold at 2.
C13_Witness ==
    /\ system = "consensus_daemon"
    /\ total_requests > 0
    /\ daemon_call.ret
    /\ Cardinality(Voted("APPROVE")) = 2
    /\ Voted("DENY") = {}
    /\ consensus_reached(DictSet(daemon_call.votes, "sixth_device", "APPROVE"))

(***************************************************************************)
(* Claims about the course of a revocation request.                        *)
(***************************************************************************)
\* This step is the tally of the i-th collect_votes thread, which returns.
TallyOf(i) ==
    /\ i \in DOMAIN collectors
    /\ collectors[i].pc = "tally"
    /\ collectors' = Without(collectors, i)

\* C14: for a CRITICAL request (required votes 1) the revocation is executed
\* as soon as the first REVOKE vote is received: the step that records it
\* sets is_revoked, without the other friends being waited for.
C14_CriticalDecidedAtFirstVote ==
    [][\A i \in Alive(collectors) :
          (/\ collectors[i].threat_level = "critical"
           /\ collectors[i].required_votes = 1
           /\ CountPending(pending_votes, "REVOKE") = 0
           /\ CountPending(pending_votes', "REVOKE") = 1)
             => is_revoked']_vars

\* C15: a request whose expiry time has passed is never executed: the tally
\* of an expired request leaves is_revoked as it was.
C15_ExpiredNeverExecuted ==
    [][\A i \in Alive(collectors) :
          (TallyOf(i) /\ collectors[i].expired)
             => is_revoked' = is_revoked]_vars

\* C16: every initiated request reaches a terminal outcome, executed or
\* expired: when its collect_votes thread, the only code that resolves it,
\* returns, the revocation has been executed or the request has been
\* counted as expired.
C16_RequestReachesOutcome ==
    [][\A i \in Alive(collectors) :
          TallyOf(i)
             => \/ is_revoked'
                \/ false_alarm_count' = false_alarm_count + 1]_vars

\* C17: a vote from a participant that is not registered is rejected:
\* receive_vote and vote_on_revocation return False and leave the recorded
\* votes, the log and the revoked state as they were.
C17_UnregisteredVoteRejected ==
    /\ [](\A f \in FriendIds \ friends, vote \in ErsVoteWords \cup {"INVESTIGATE"} :
             ReceiveVote(friends, pending_votes, revocation_log, f, vote)
                = [votes |-> pending_votes, log |-> revocation_log,
                   ret |-> FALSE])
    /\ [][/\ \A f \in FriendIds \ friends : f \notin DOMAIN pending_votes'
          /\ (/\ ser_call'.op = "vote_on_revocation"
              /\ ~IsFriend(ser_friends, ser_call'.who))
                => /\ ser_call'.ret = "False"
                   /\ pending_revocations' = pending_revocations
                   /\ revoked_devices' = revoked_devices]_vars

\* A vote by a device that is not a friend, for a device whose round is
\* open with a friend's vote in it, was turned down.
C17_Witness ==
    /\ ser_call.op = "vote_on_revocation"
    /\ ~IsFriend(ser_friends, ser_call.who)
    /\ ser_call.target \in DOMAIN pending_revocations
    /\ pending_revocations[ser_call.target].votes # <<>>
    /\ ser_call.ret = "False"

\* C18: a vote cast when no voting round is open for its target is rejected
\* and not recorded: no vote is held before a request has been made, and
\* none for a device that has been revoked.
C18_NoRoundNoVote ==
    /\ LoggedRequests(revocation_log) = 0 => pending_votes = <<>>
    /\ \A d \in revoked_devices : d \notin DOMAIN pending_revocations


(***************************************************************************)
(* Claims about the results of the /vote endpoint and of the orchestrator. *)
(***************************************************************************)
\* C19: a result is immutable.  Once /vote has returned a result for an
\* operation, every later vote for that operation returns the same result;
\* once submit_transaction has returned a result for a transaction, every
\* resubmission of that transaction under its id returns the same verdict.
C19_ResultImmutable ==
    [][/\ \A op \in DOMAIN votes :
             (/\ AppAnswer(votes[op], op).result # ""
              /\ votes'[op] # votes[op])
                => response'.result = AppAnswer(votes[op], op).result
       /\ \A id \in DOMAIN consensus_results :
             (/\ submission_count' > submission_count
              /\ submitted'.id = id
              /\ active_transactions'[id] = active_transactions[id])
                => submitted'.result.consensus
                      = consensus_results[id].consensus]_vars

\* A security-critical location: anything under /etc/, /boot/ or /usr/, or a
\* file of a .ssh directory.
SecurityCritical(path) ==
    \/ StartsWith(path, "etc")
    \/ StartsWith(path, "boot")
    \/ StartsWith(path, "usr")
    \/ \E i \in 1..(Len(path) - 1) : path[i] = ".ssh"

\* C20: every transaction that targets a security-critical location is
\* DENIED by the 5-node round, whatever the laptop votes and whatever the
\* hour.
C20_CriticalAlwaysDenied ==
    /\ (/\ system = "phase3_network"
        /\ transaction_count > 0
        /\ SecurityCritical(transaction.path)) => ~consensus
    /\ \A id \in DOMAIN consensus_results :
          SecurityCritical(active_transactions[id].path)
             => consensus_results[id].consensus = "DENIED"

(***************************************************************************)
(* Claims about the policies of the 5-node networks.                       *)
(***************************************************************************)
\* A path of the user: under /home/ or /tmp/.
UserPath(path) == StartsWith(path, "home") \/ StartsWith(path, "tmp")

\* C21: a non-root write or open on a path under /home/ or /tmp/ is
\* APPROVED by the 5-node round, whatever the laptop votes and whatever the
\* hour.
C21_UserOperationsApproved ==
    /\ (/\ system = "phase3_network"
        /\ transaction_count > 0
        /\ transaction.syscall \in {"write", "read"}
        /\ UserPath(transaction.path)) => consensus
    /\ \A id \in DOMAIN consensus_results :
          (/\ active_transactions[id].user_id # 0
           /\ active_transactions[id].syscall_type \in {"FileWrite", "FileOpen"}
           /\ UserPath(active_transactions[id].path))
             => consensus_results[id].consensus = "APPROVED"

(***************************************************************************)
(* Claims about BootstrapProtocol.                                         *)
(***************************************************************************)
\* The devices asked so far that approved and sent a share.
RECURSIVE Granted(_)
Granted(did) ==
    IF did = <<>> THEN 0
    ELSE Granted(Tail(did)) + (IF Head(did) = "share" THEN 1 ELSE 0)

\* C22: collect_threshold_shares and execute_secure_boot return True only if
\* at least `threshold` devices approved and each sent a share; a device
\* that rejects, errors or is unreachable does not count.
C22_BootNeedsThresholdApprovals ==
    boot_call.ret => Granted(replies) >= boot_threshold

(***************************************************************************)
(* Claims about the reputations of the orchestrator.                       *)
(***************************************************************************)
\* The decision a vote is compared with after a round.
Decision(outcome) == IF outcome.approved THEN "APPROVE" ELSE "DENY"

\* C23: after each round, the reputation of every node whose vote equals the
\* decision is raised by 1, capped at 100, and the reputation of every node
\* whose vote differs is lowered by 2, floored at 0.
C23_RewardOnePenaltyTwo ==
    [][submission_count' > submission_count =>
          \A n \in DOMAIN OrchestratorNodes :
             LET before == node_reputations[n]
                 after == node_reputations'[n]
             IN  IF submitted'.votes[n] = Decision(submitted'.result)
                 THEN after = (IF before + 1 > 100 THEN 100 ELSE before + 1)
                 ELSE after = (IF before - 2 < 0 THEN 0 ELSE before - 2)]_vars

\* The laptop has been floored at 0 from 1, and another node has since been
\* raised from 98 to 99.
C23_Witness ==
    /\ submission_count = 2
    /\ node_reputations[1] = 0
    /\ \E n \in DOMAIN OrchestratorNodes : node_reputations[n] = 99

\* C30: after any sequence of submit_transaction rounds, the reputation of
\* every node is an integer in [0, 100].
C30_ReputationInRange ==
    system = "network_simulator" =>
        \A n \in DOMAIN OrchestratorNodes : node_reputations[n] \in 0..100

\* After a round, a node penalised at 1 stands at 0 and a node rewarded at
\* 100 stands at 100.
C30_Witness ==
    /\ submission_count > 0
    /\ node_reputations[1] = 0
    /\ \E n \in DOMAIN OrchestratorNodes :
          /\ node_reputations[n] = 100
          /\ submitted.votes[n] = Decision(submitted.result)

\* The approvals of a round cast by nodes that hold some reputation.
WeightedApprovers(cast, reputations) ==
    {n \in DOMAIN cast : cast[n] = "APPROVE" /\ reputations[n] > 0}

\* C24: reputation feeds back into later rounds.  The vote of a node counts
\* with the weight its reputation gives it when the round starts, so a node
\* whose reputation has fallen to 0 adds nothing to an approval: a round is
\* approved only with three approvals of nodes that hold some reputation.
C24_ReputationFeedsBack ==
    [][(submission_count' > submission_count /\ submitted'.result.approved)
          => Cardinality(WeightedApprovers(submitted'.votes,
                                           node_reputations)) >= 3]_vars

(***************************************************************************)
(* Claims about concurrent rounds.                                         *)
(***************************************************************************)
\* C25: at most one voting round is active for the device at any time: a
\* second request made while a round is pending starts no second
\* collect_votes thread.
C25_OneRoundPerSubject == Cardinality(Alive(collectors)) <= 1

(***************************************************************************)
(* Claims about malformed requests.                                        *)
(***************************************************************************)
\* The operation kinds Device.vote knows.
KnownOperations == {"sudo", "file_write", "network"}

\* C26: a request of an unknown operation kind is rejected at submission: it
\* is never put to a vote and never approved.
C26_MalformedNeverVoted ==
    (total_requests > 0 /\ daemon_call.operation \notin KnownOperations)
        => /\ DOMAIN daemon_call.votes = {}
           /\ ~daemon_call.ret

(***************************************************************************)
(* Claims about the shares handed to reconstruct_key, and the field.       *)
(***************************************************************************)
\* Two of the shares reconstruct_key uses have the same x-coordinate.
DuplicateX(list, k) ==
    \E i, j \in 1..k : i # j /\ list[i][1] = list[j][1]

\* C27: reconstruct_key never returns a key computed from shares with a
\* duplicate x-coordinate: it fails.
C27_DuplicateXRejected ==
    (/\ phase = "reconstructed"
     /\ Len(given) >= threshold
     /\ DuplicateX(given, threshold)) => result.err # "none"


\* The shares reconstruct_key interpolates: shares[:self.threshold].
UsedShares == SubSeq(given, 1, threshold)

Field == 0..(prime - 1)

\* C29: every field value is canonical.  Every share y that split_key
\* produced lies in [0, prime), and once reconstruct_key has interpolated,
\* every value it computed on the way lies in [0, prime) too: each numerator
\* and denominator after each factor, the inverse of the denominator, the
\* Lagrange coefficient and the running secret after each share, although
\* the factors -xj are negative and the factors xi - xj are negative for
\* every xi < xj.
C29_FieldValuesCanonical ==
    /\ \A s \in Range(shares) : s[2] \in Field
    /\ (phase = "reconstructed" /\ Len(given) >= threshold) =>
          \A i \in 1..threshold :
             /\ \A j \in 0..threshold :
                   /\ LagrangeProd(UsedShares, i, j, TRUE) \in Field
                   /\ LagrangeProd(UsedShares, i, j, FALSE) \in Field
             /\ InvDenominator(UsedShares, i) \in Field
             /\ LagrangeCoefficient(UsedShares, i) \in Field
             /\ Interpolate(UsedShares, i) \in Field

\* A reconstruction from at least two shares whose first x is below the
\* second: the factor xi - xj is negative, as every factor -xj is.
C29_Witness ==
    /\ phase = "reconstructed"
    /\ result.err = "none"
    /\ threshold >= 2
    /\ Len(given) >= threshold
    /\ given[1][1] - given[2][1] < 0
    /\ 0 - given[2][1] < 0
    /\ given[1][2] # 0


(***************************************************************************)
(* Claims about the voting policies.                                       *)
(***************************************************************************)
\* C28: every voting policy is a pure, deterministic function of the
\* participant's state and the request.  Evaluating the votes of a request
\* leaves the state of every device as it was, and a round over a request
\* equal to the one of the round before it, with no participant's state
\* changed in between, returns the votes of the round before it: in the
\* daemon, in the phase 3 network and in the orchestrator.
C28_PoliciesPure ==
    [][/\ (system = "consensus_daemon" /\ total_requests' > total_requests)
             => /\ status' = status
                /\ (/\ total_requests > 0
                    /\ daemon_call'.operation = daemon_call.operation
                    /\ daemon_call'.details = daemon_call.details)
                        => daemon_call'.votes = daemon_call.votes
       /\ (/\ system = "phase3_network"
           /\ transaction_count > 0
           /\ transaction_count' > transaction_count
           /\ transaction' = transaction)
             => node_votes' = node_votes
       /\ (/\ system = "network_simulator"
           /\ submission_count > 0
           /\ submission_count' > submission_count
           /\ submitted'.id = submitted.id
           /\ active_transactions'[submitted'.id]
                 = active_transactions[submitted.id])
             => submitted'.votes = submitted.votes]_vars


(***************************************************************************)
(* Claims about execute_revocation.                                        *)
(***************************************************************************)
\* C32: every execution of execute_revocation carries out its five steps and
\* ends with is_revoked and is_locked both True: the system is in no state
\* where the revocation flag is set and the lockdown has not happened.
C32_RevokedIsLocked == is_revoked => is_locked


(***************************************************************************)
(* Claims about the votes of successive requests.                          *)
(***************************************************************************)
\* C35: the REVOKE votes recorded for one request are counted for that
\* request only.  When a request is initiated after the one before it has
\* lapsed (its thread has returned and the device is not revoked), no REVOKE
\* vote of the earlier request is among the votes the tally of the new
\* request will count.
C35_VotesOfLapsedRequestDropped ==
    [][(/\ system = "emergency_revocation"
        /\ revocation_log' = Append(revocation_log, "revocation_request")
        /\ Alive(collectors) = {}
        /\ ~is_revoked)
          => CountPending(pending_votes', "REVOKE") = 0]_vars


(***************************************************************************)
(* Claims about the dead man's switch.                                     *)
(***************************************************************************)
\* C33: the dead man's switch initiates a revocation, of threat level HIGH,
\* only when the heartbeat is overdue and the device is not revoked, and it
\* initiates at most one: once it has initiated, it initiates no more.
C33_SwitchInitiatesOnlyOverdue ==
    [][/\ (switch_pc = "sleeping" /\ switch_pc' = "initiated")
             => /\ heartbeat_overdue
                /\ ~is_revoked
                /\ collectors'[Len(collectors')].threat_level = "high"
       /\ switch_pc = "initiated" => switch_pc' = "initiated"]_vars


(***************************************************************************)
(* Claims about offline devices.                                           *)
(***************************************************************************)
\* C36: a device that has once been found offline never becomes online
\* again: its status stays "offline", every later vote of it is ABSTAIN, and
\* a request made when every device is offline is denied.
C36_OfflineIsForever ==
    [][system = "consensus_daemon" =>
          /\ \A d \in DOMAIN status :
                status[d] = "offline" =>
                   /\ status'[d] = "offline"
                   /\ total_requests' > total_requests
                         => daemon_call'.votes[d] = "ABSTAIN"
          /\ (/\ total_requests' > total_requests
              /\ \A d \in DOMAIN status : status[d] = "offline")
                => ~daemon_call'.ret]_vars

\* A network request, which every online device approves, answered after
\* every device had been found offline by the request before it.
C36_Witness ==
    /\ total_requests = 2
    /\ denied_requests = 2
    /\ daemon_call.operation = "network"
    /\ \A d \in DOMAIN status : status[d] = "offline"
    /\ \A d \in DOMAIN daemon_call.votes : daemon_call.votes[d] = "ABSTAIN"
    /\ ~daemon_call.ret


(***************************************************************************)
(* Claims about the daemon's counters.                                     *)
(***************************************************************************)
\* C37: the counters stay consistent under concurrent client threads:
\* whenever no request is in progress, total_requests equals
\* approved_requests + denied_requests and equals the number of requests
\* handled.
C37_CountersConsistent ==
    (/\ system = "consensus_daemon"
     /\ \A i \in DOMAIN clients : clients[i].pc = "done")
        => /\ total_requests = approved_requests + denied_requests
           /\ total_requests = Len(clients)


(***************************************************************************)
(* Claims about MPCCoordinator.verify_consensus.                           *)
(***************************************************************************)
\* The results received that carry a decision key.
Carrying(key) == {i \in DOMAIN mpc_results : ResultKey(mpc_results[i]) = key}

\* C31: verify_consensus reports consensus True only if at least `required`
\* results carry the decision key it returns, and reports consensus False
\* whenever fewer than `required` results were received; with required >= 2
\* the results that carry the decision come from at least two nodes.
C31_ConsensusNeedsRequiredAgreeing ==
    mpc_calls > 0 =>
       /\ mpc_outcome.consensus =>
             /\ Cardinality(Carrying(mpc_outcome.decision)) >= mpc_required
             /\ mpc_outcome.agreeing_nodes >= mpc_required
             /\ mpc_required >= 2 =>
                   Cardinality({mpc_results[i].node_id :
                                   i \in Carrying(mpc_outcome.decision)}) >= 2
       /\ Len(mpc_results) < mpc_required => ~mpc_outcome.consensus

\* Five results with required 3: the laptop alone answers allowed:True for
\* /etc/shadow, and the decision is the one of the four other nodes.
C31_Witness ==
    /\ mpc_calls > 0
    /\ mpc_required = 3
    /\ Len(mpc_results) = 5
    /\ mpc_operation.parameters.filepath = "/etc/shadow"
    /\ ResultKey(mpc_results[1]) = "allowed:True"
    /\ mpc_outcome.consensus
    /\ mpc_outcome.decision = "allowed:False"
    /\ mpc_outcome.agreeing_nodes = 4

\* The results received, in every order of arrival.
Arrivals ==
    {[i \in DOMAIN mpc_results |-> mpc_results[order[i]]] :
        order \in InjSeqs(DOMAIN mpc_results, Len(mpc_results))}

\* C38: verify_consensus is independent of the order in which the results
\* arrive: for every permutation of the results it returns the consensus
\* flag and the decision it returned for them.
C38_OrderIndependent ==
    mpc_calls > 0 =>
       \A arrived \in Arrivals :
          LET other == verify_consensus(arrived, mpc_required)
          IN  /\ other.consensus = mpc_outcome.consensus
              /\ other.decision = mpc_outcome.decision

\* C39: verify_consensus never reports consensus True on the ground of
\* responses that carry no allowed, vote or signature_fragment field: error
\* answers form no group that yields a positive consensus.
C39_NoConsensusOnErrors ==
    mpc_outcome.consensus => mpc_outcome.decision # "unknown"


(***************************************************************************)
(* C34: the syscall handlers fail secure.  Each handle_client of the       *)
(* daemon and of the bridge answers APPROVE only when no exception was     *)
(* raised and the consensus round of that very request returned approved;  *)
(* whenever receiving, deciding or contacting the blockchain raises or     *)
(* fails, the answer is DENY.                                              *)
(***************************************************************************)
C34_HandlersFailSecure ==
    [][/\ daemon_answer' # daemon_answer =>
            /\ daemon_answer'.answer = "APPROVE" =>
                  /\ daemon_answer'.fault = "none"
                  /\ total_requests' = total_requests + 1
                  /\ daemon_call'.ret
                  /\ consensus_reached(daemon_call'.votes)
            /\ daemon_answer'.fault # "none" => daemon_answer'.answer = "DENY"
       /\ bridge_call' # bridge_call =>
            /\ bridge_call'.answer = "APPROVE" =>
                  /\ bridge_call'.fault = "none"
                  /\ bridge_call'.rpc = "result"
                  /\ bridge_stats'.total_requests
                        = bridge_stats.total_requests + 1
                  /\ simulate_validator_consensus(bridge_call'.operation,
                                                  bridge_call'.details)
            /\ (bridge_call'.fault # "none" \/ bridge_call'.rpc # "result")
                  => bridge_call'.answer = "DENY"]_vars

\* The bridge has approved one request and then denied one whose bytes
\* could not be decoded.
C34_Witness ==
    /\ system = "blockchain_bridge"
    /\ bridge_call.n = 2
    /\ bridge_stats.approved = 1
    /\ bridge_call.fault = "decode_error"
    /\ bridge_call.answer = "DENY"

=============================================================================
